---- MODULE Spec2Model ----
(***************************************************************************)
(* A model of the RLS-RDB storage engine: the copy-on-write B+tree of      *)
(* package core (node.go, btree.go), the persistent free list              *)
(* (free_list.go) and the page manager / commit protocol of kv.go.         *)
(*                                                                         *)
(* Byte strings are modelled by identifiers that carry their length:      *)
(* a key is a natural number (0 is the empty key of the dummy entry,      *)
(* numeric order is bytes.Compare order), a value likewise (0 is the      *)
(* empty value).  A node is the list of its entries, and its size in      *)
(* bytes is computed from the on-page layout, so every comparison the     *)
(* code makes against BTreePageSize is made on the same number.           *)
(***************************************************************************)
EXTENDS Integers, Sequences, FiniteSets, TLC

(***************************************************************************)
(* Program constants (src/core/node.go, src/core/btree_iter_test.go).      *)
(***************************************************************************)
Header == 4
BTreePageSize == 4096
BTreeMaxKeySize == 1000
BTreeMaxValSize == 3000
BNodeNode == 1
BNodeLeaf == 2
PointerSize == 8
offsetSize == 2
KeyLenSize == 2
ValLenSize == 2
ModeUpsert == 0
ModeUpdateOnly == 1
ModeInsertOnly == 2

(***************************************************************************)
(* Bounds of the model.                                                    *)
(***************************************************************************)
\* keys 1..NumKeys are the keys the tree harness draws from
NumKeys == 7
\* values 1..NumVals are the values the tree harness draws from
NumVals == 2

Keys == 1..NumKeys
Vals == 1..NumVals
\* a Go map[key]value: a function on the keys present; delete removes the key
MapSet(m, k, v) == (k :> v) @@ m
MapDel(m, k) == [x \in (DOMAIN m) \ {k} |-> m[x]]

\* len(key): key 2 is one byte long, every other key has the maximal length
KeyLen(k) == IF k = 0 THEN 0 ELSE IF k = 2 THEN 1 ELSE BTreeMaxKeySize
\* len(val): value 1 has the maximal length, the other values one byte
ValLen(v) == IF v = 0 THEN 0 ELSE IF v = 1 THEN BTreeMaxValSize ELSE 1

(***************************************************************************)
(* BNode (src/core/node.go).  A node is [t, e]: its type and the sequence  *)
(* of its entries [k, v, p] (key, value, child pointer).  Entry i of the   *)
(* code (0-based) is e[i+1].  NoNode is the empty slice BNode{}.           *)
(***************************************************************************)
NoNode == [t |-> 0, e |-> <<>>]
Entry(k, v, p) == [k |-> k, v |-> v, p |-> p]
MkNode(t, e) == [t |-> t, e |-> e]

bType(b) == b.t
nKeys(b) == Len(b.e)
getPtr(b, idx) == b.e[idx + 1].p
getKey(b, idx) == b.e[idx + 1].k
\* a getVal that always answers the empty value
getVal_Empty(b, idx) == 0
getVal(b, idx) == b.e[idx + 1].v

\* bytes of one kv entry: | klen | vlen | key | val |
EntryBytes(x) == KeyLenSize + ValLenSize + KeyLen(x.k) + ValLen(x.v)

RECURSIVE SumBytes(_, _)
SumBytes(e, n) == IF n = 0 THEN 0 ELSE SumBytes(e, n - 1) + EntryBytes(e[n])

\* offset of entry idx relative to the first kv (offsets[0] = 0 is implicit)
getOffset(b, idx) == SumBytes(b.e, idx)
kvPos(b, idx) == Header + PointerSize * nKeys(b) + offsetSize * nKeys(b) + getOffset(b, idx)
nBytes(b) == kvPos(b, nKeys(b))

\* largest i with key[i] <= key, scanning from 1; 0 when none
RECURSIVE LookupFrom(_, _, _, _)
LookupFrom(node, key, i, found) ==
    IF i >= nKeys(node) THEN found
    ELSE LET k == getKey(node, i) IN
         IF k < key THEN LookupFrom(node, key, i + 1, i)
         ELSE IF k = key THEN i
         ELSE found
nodeLookupLE(node, key) == LookupFrom(node, key, 1, 0)

\* entries src..src+n-1 (0-based) of a node
Range(b, src, n) == SubSeq(b.e, src + 1, src + n)

\* leafUpdate that leaves the old value in place
leafUpdate_KeepsOld(old, idx, key, val) == old
\* leafInsert that writes the new entry one slot too early
leafInsert_OneTooEarly(old, idx, key, val) ==
    [t |-> 2, e |-> SubSeq(old.e, 1, idx - 1) \o <<[k |-> key, v |-> val, p |-> 0]>>
                    \o SubSeq(old.e, idx, Len(old.e))]

leafInsert(old, idx, key, val) ==
    MkNode(BNodeLeaf, Range(old, 0, idx) \o <<Entry(key, val, 0)>>
                      \o Range(old, idx, nKeys(old) - idx))
leafUpdate(old, idx, key, val) ==
    MkNode(BNodeLeaf, Range(old, 0, idx) \o <<Entry(key, val, 0)>>
                      \o Range(old, idx + 1, nKeys(old) - (idx + 1)))
leafDelete(old, idx) ==
    MkNode(BNodeLeaf, Range(old, 0, idx) \o Range(old, idx + 1, nKeys(old) - (idx + 1)))
nodeMerge(left, right) == MkNode(bType(left), left.e \o right.e)


\* the process ends on a failed util.Assert or a panic: err names it
SetErr(s, msg) == IF s.err = "" THEN [s EXCEPT !.err = msg] ELSE s

(***************************************************************************)
(* LNode (src/btree/free_list.go): | next | pointers |.  A list node is    *)
(* [next, p] with p its FreeListCap slots, indexed from 0.  A page of      *)
(* zeros is the list node whose next and slots are all 0.                  *)
(***************************************************************************)
\* slots of one list node; (BTreePageSize - FreeListHeader) / 8 = 511 in the
\* source, scaled down here so that a list node fills up within the bounds
FreeListCap == 4

ZeroPage == [next |-> 0, p |-> [i \in 0..(FreeListCap - 1) |-> 0]]
IsLNode(page) == "next" \in DOMAIN page
IsBNode(page) == "e" \in DOMAIN page
IsMeta(page) == "sig" \in DOMAIN page

\* the bytes a tree node left in a page, read as a pointer: a number that is
\* no page of the file
Stale == 65536 * BNodeLeaf

\* the bytes of a page read as an LNode
AsLNode(page) ==
    IF IsLNode(page) THEN page
    ELSE [next |-> Stale, p |-> [i \in 0..(FreeListCap - 1) |-> Stale]]

\* seq2idx
seq2idx(seq) == seq % FreeListCap

\* the bytes of a page read as a BNode: a list node's first bytes are its
\* next pointer, the meta page's are its signature
AsBNode(page) ==
    IF IsBNode(page) THEN page
    ELSE IF IsLNode(page) THEN [t |-> page.next % 65536, e |-> <<>>]
    ELSE [t |-> 30018, e |-> <<>>]

(***************************************************************************)
(* Harness L of the free-list tests (newL): [kind "L", pages, appendNum,   *)
(* fl, err].  Page manager of KV (src/btree/kv.go): [kind "KV", root,      *)
(* flushed, nappend, updates, fl, failed, err, disk, cache, ...]; disk is  *)
(* the durable content of the file, cache the writes not yet synced, both  *)
(* functions from page numbers.                                            *)
(***************************************************************************)
\* newL: get, set
LGet(s, ptr) ==
    IF ptr \in DOMAIN s.pages THEN [s |-> s, page |-> s.pages[ptr]]
    ELSE [s |-> SetErr(s, "L: assert pages[ptr] != nil"), page |-> ZeroPage]
LStore(s, ptr, page) == [s EXCEPT !.pages[ptr] = page]
\* newL: new
LNew(s, page) ==
    IF s.appendNum \in DOMAIN s.pages
    THEN [s |-> SetErr(s, "L: assert pages[appendNum] == nil"), ptr |-> 0]
    ELSE [s |-> [s EXCEPT !.pages = (s.appendNum :> page) @@ s.pages,
                          !.appendNum = s.appendNum + 1],
          ptr |-> s.appendNum]

\* the file as the process reads it through its mapping
FilePage(s, ptr) == IF ptr \in DOMAIN s.cache THEN s.cache[ptr] ELSE s.disk[ptr]

\* KV.pageReadFile returns [s, page]; a page past the end of the file is
\* not backed by the mapping
pageReadFile(s, ptr) ==
    IF ptr \in DOMAIN s.disk THEN [s |-> s, page |-> FilePage(s, ptr)]
    ELSE [s |-> SetErr(s, "pageReadFile: SIGBUS"), page |-> ZeroPage]

\* KV.pageRead returns [s, page]
pageRead(s, ptr) ==
    IF ~(ptr < s.flushed + s.nappend)
    THEN [s |-> SetErr(s, "pageRead: assert ptr < flushed+nappend"), page |-> ZeroPage]
    ELSE IF ptr \in DOMAIN s.updates THEN [s |-> s, page |-> s.updates[ptr]]
    ELSE pageReadFile(s, ptr)

\* KV.pageAppend returns [s, ptr]
pageAppend(s, page) ==
    IF (s.flushed + s.nappend) \notin DOMAIN s.updates
    THEN [s |-> SetErr([s EXCEPT !.nappend = s.nappend + 1],
                       "pageAppend: assert updates[ptr] != nil"),
          ptr |-> 0]
    ELSE [s |-> [s EXCEPT !.nappend = s.nappend + 1,
                          !.updates[s.flushed + s.nappend] = page],
          ptr |-> s.flushed + s.nappend]

\* KV.pageWrite returns [s, page]
pageWrite(s, ptr) ==
    LET staged(r) == IF r.s.err # "" THEN r
                     ELSE [s |-> [r.s EXCEPT !.updates = (ptr :> r.page) @@ r.s.updates],
                           page |-> r.page]
    IN IF ~(ptr < s.flushed + s.nappend)
       THEN [s |-> SetErr(s, "pageWrite: assert ptr < flushed+nappend"), page |-> ZeroPage]
       ELSE IF ptr \in DOMAIN s.updates THEN [s |-> s, page |-> s.updates[ptr]]
       ELSE staged(pageReadFile(s, ptr))

\* FreeList.get, FreeList.set, FreeList.new: the callbacks bound by newL and by KV.Open
FlGet(s, ptr) == IF s.kind = "L" THEN LGet(s, ptr) ELSE pageRead(s, ptr)
FlSet(s, ptr) == IF s.kind = "L" THEN LGet(s, ptr) ELSE pageWrite(s, ptr)
FlNew(s, page) == IF s.kind = "L" THEN LNew(s, page) ELSE pageAppend(s, page)
\* the write through the slice that FreeList.set returned
FlStore(s, ptr, page) ==
    IF s.err # "" THEN s
    ELSE IF s.kind = "L" THEN LStore(s, ptr, page)
    ELSE [s EXCEPT !.updates[ptr] = page]

\* LNode.setPtr / LNode.setNext on the page FreeList.set returned as w
\* a setPtr that does not store the id
setPtr_Drop(w, ptr, idx, val) == w.s
\* a setNext that links the node to itself
setNext_Self(w, ptr, next) == FlStore(w.s, ptr, [AsLNode(w.page) EXCEPT !.next = ptr])
setPtr(w, ptr, idx, val) == FlStore(w.s, ptr, [AsLNode(w.page) EXCEPT !.p[idx] = val])
setNext(w, ptr, next) == FlStore(w.s, ptr, [AsLNode(w.page) EXCEPT !.next = next])

\* FreeList.check
check(fl) == /\ fl.headPage # 0 /\ fl.tailPage # 0
             /\ fl.headSeq # fl.tailSeq \/ fl.headPage = fl.tailPage

\* flPop that stops at the tail instead of at maxSeq
flEmpty_StopsAtTail(fl) == fl.headSeq = fl.tailSeq

\* flPop without the barrier
flEmpty_Never(fl) == FALSE

\* flPop: nothing may be taken
flEmpty(fl) == fl.headSeq = fl.maxSeq

\* flPop returns [s, ptr, head]
flPop(s) ==
    LET none(st) == [s |-> st, ptr |-> 0, head |-> 0]
        advance(st, node) ==
            IF seq2idx(st.fl.headSeq + 1) = 0
            THEN [s |-> IF node.next = 0
                        THEN SetErr([st EXCEPT !.fl.headSeq = @ + 1, !.fl.headPage = 0],
                                    "flPop: assert headPage != 0")
                        ELSE [st EXCEPT !.fl.headSeq = @ + 1, !.fl.headPage = node.next],
                  ptr |-> node.p[seq2idx(st.fl.headSeq)],
                  head |-> st.fl.headPage]
            ELSE [s |-> [st EXCEPT !.fl.headSeq = @ + 1],
                  ptr |-> node.p[seq2idx(st.fl.headSeq)],
                  head |-> 0]
        take(g) == IF g.s.err # "" THEN none(g.s) ELSE advance(g.s, AsLNode(g.page))
    IN IF s.err # "" THEN none(s)
       ELSE IF ~check(s.fl) THEN none(SetErr(s, "FreeList.check"))
       ELSE IF flEmpty(s.fl) THEN none(s)
       ELSE take(FlGet(s, s.fl.headPage))

\* FreeList.PushTail
PushTail(s, ptr) ==
    LET reuse(st, head) ==
            IF head = 0 \/ st.err # "" THEN st
            ELSE [setPtr(FlSet(st, st.fl.tailPage), st.fl.tailPage, 0, head)
                     EXCEPT !.fl.tailSeq = IF st.err = "" THEN @ + 1 ELSE @]
        link(a, head) ==
            IF a.s.err # "" THEN a.s
            ELSE reuse([setNext(FlSet(a.s, a.s.fl.tailPage), a.s.fl.tailPage, a.ptr)
                           EXCEPT !.fl.tailPage = a.ptr], head)
        grow(r) == IF r.s.err # "" THEN r.s
                   ELSE IF r.ptr = 0 THEN link(FlNew(r.s, ZeroPage), r.head)
                   ELSE link([s |-> r.s, ptr |-> r.ptr], r.head)
        pushed(st) == IF st.err # "" THEN st
                      ELSE IF seq2idx(st.fl.tailSeq + 1) = 0
                      THEN grow(flPop([st EXCEPT !.fl.tailSeq = @ + 1]))
                      ELSE [st EXCEPT !.fl.tailSeq = @ + 1]
    IN IF s.err # "" THEN s
       ELSE pushed(setPtr(FlSet(s, s.fl.tailPage), s.fl.tailPage, seq2idx(s.fl.tailSeq), ptr))

\* FreeList.PopHead returns [s, ptr]
PopHead(s) ==
    LET repush(r) == IF r.s.err = "" /\ r.head # 0
                     THEN [s |-> PushTail(r.s, r.head), ptr |-> r.ptr]
                     ELSE [s |-> r.s, ptr |-> r.ptr]
    IN repush(flPop(s))

\* SetMaxSeq that puts the barrier behind the tail
SetMaxSeq_Ahead(s) == [s EXCEPT !.fl.maxSeq = s.fl.tailSeq + 1]

\* SetMaxSeq that leaves the barrier where it is
SetMaxSeq_Keep(s) == s

\* FreeList.SetMaxSeq
SetMaxSeq(s) == [s EXCEPT !.fl.maxSeq = s.fl.tailSeq]

\* KV.pageAlloc returns [s, ptr]; alloc records the pages it handed out
pageAlloc(s, node) ==
    LET place(r) ==
            IF r.s.err # "" THEN [s |-> r.s, ptr |-> 0]
            ELSE IF r.ptr # 0
            THEN [s |-> [r.s EXCEPT !.updates = (r.ptr :> node) @@ r.s.updates,
                                    !.alloc = @ \cup {r.ptr}],
                  ptr |-> r.ptr]
            ELSE pageAppend(r.s, node)
    IN place(PopHead(s))

(***************************************************************************)
(* The page store behind the tree's callbacks get / new / del.  A store is *)
(* a record with a field kind; kind "C" is the in-memory harness of the    *)
(* tree tests (newC): [kind, root, pages, err, big].  err is "" while the  *)
(* process runs and names the failed assertion or panic once it has ended; *)
(* every operation on a store whose process has ended leaves it as it is.  *)
(* big records that tree.new was handed a node of more than one page.      *)
(***************************************************************************)

\* an address not in use: the pages map is keyed by the buffer's address
FreshPtr(pages) ==
    CHOOSE p \in 1..(Cardinality(DOMAIN pages) + 1) :
        /\ p \notin DOMAIN pages
        /\ \A q \in 1..(p - 1) : q \in DOMAIN pages

\* newC: get
CGetS(s, ptr) == IF ptr \in DOMAIN s.pages THEN s ELSE SetErr(s, "get: assert ok")
CGetN(s, ptr) == IF ptr \in DOMAIN s.pages THEN s.pages[ptr] ELSE NoNode
\* newC: new
CNew(s, node) ==
    IF nBytes(node) > BTreePageSize
    THEN [s |-> [SetErr(s, "new: assert nBytes <= BTreePageSize") EXCEPT !.big = TRUE],
          ptr |-> 0]
    ELSE LET p == FreshPtr(s.pages)
         IN [s |-> [s EXCEPT !.pages = (p :> node) @@ s.pages], ptr |-> p]
\* newC: del
CDel(s, ptr) ==
    IF ptr \notin DOMAIN s.pages THEN SetErr(s, "del: assert pages[ptr] != nil")
    ELSE [s EXCEPT !.pages = [q \in (DOMAIN s.pages) \ {ptr} |-> s.pages[q]]]

\* tree.get, tree.new, tree.del: the callbacks bound by newC and by KV.Open
GetS(s, ptr) == IF s.err # "" THEN s
                ELSE IF s.kind = "C" THEN CGetS(s, ptr) ELSE pageRead(s, ptr).s
GetN(s, ptr) == IF s.err # "" THEN NoNode
                ELSE IF s.kind = "C" THEN CGetN(s, ptr) ELSE AsBNode(pageRead(s, ptr).page)
New(s, node) == IF s.err # "" THEN [s |-> s, ptr |-> 0]
                ELSE IF s.kind = "C" THEN CNew(s, node) ELSE pageAlloc(s, node)
Del(s, ptr) == IF s.err # "" THEN s
               ELSE IF s.kind = "C" THEN CDel(s, ptr)
               ELSE [PushTail(s, ptr) EXCEPT !.freed = @ \cup {ptr}]

(***************************************************************************)
(* The B+tree (src/core/btree_iter_test.go, lines 76-400).                 *)
(***************************************************************************)
\* nodeSplit2: the two loops that choose nLeft
leftBytes(old, nLeft) == Header + PointerSize * nLeft + offsetSize * nLeft + getOffset(old, nLeft)
\* a right size under which the second loop never runs
rightBytes_Header(old, nLeft) == Header
rightBytes(old, nLeft) == nBytes(old) - leftBytes(old, nLeft) + Header

RECURSIVE FitLeft(_, _)
FitLeft(old, nLeft) ==
    IF nLeft > 0 /\ leftBytes(old, nLeft) > BTreePageSize THEN FitLeft(old, nLeft - 1) ELSE nLeft
RECURSIVE FitRight(_, _)
FitRight(old, nLeft) ==
    IF nLeft < nKeys(old) /\ rightBytes(old, nLeft) > BTreePageSize
    THEN FitRight(old, nLeft + 1) ELSE nLeft

\* nodeSplit2 returns [err, left, right]
nodeSplit2(old) ==
    LET stop(msg) == [err |-> msg, left |-> NoNode, right |-> NoNode]
        cut(nLeft) ==
            IF nLeft >= nKeys(old) THEN stop("nodeSplit2: assert nLeft < nKeys")
            ELSE IF rightBytes(old, nLeft) > BTreePageSize
            THEN stop("nodeSplit2: assert right.nBytes <= BTreePageSize")
            ELSE [err |-> "",
                  left |-> MkNode(bType(old), Range(old, 0, nLeft)),
                  right |-> MkNode(bType(old), Range(old, nLeft, nKeys(old) - nLeft))]
        fitted(n1) == IF n1 < 1 THEN stop("nodeSplit2: assert nLeft >= 1")
                      ELSE cut(FitRight(old, n1))
    IN IF nKeys(old) < 2 THEN stop("nodeSplit2: assert nKeys >= 2")
       ELSE fitted(FitLeft(old, nKeys(old) \div 2))

\* a nodeSplit3 that never splits a second time
nodeSplit3_TwoNodes(old) ==
    LET cut(a) == IF a.err # "" THEN [err |-> a.err, nodes |-> <<>>]
                  ELSE [err |-> "", nodes |-> <<a.left, a.right>>]
    IN IF nBytes(old) <= BTreePageSize THEN [err |-> "", nodes |-> <<old>>]
       ELSE cut(nodeSplit2(old))

\* nodeSplit3 returns [err, nodes]: 1 to 3 nodes
nodeSplit3(old) ==
    LET stop(msg) == [err |-> msg, nodes |-> <<>>]
        second(a, b) ==
            IF b.err # "" THEN stop(b.err)
            ELSE IF nBytes(b.left) > BTreePageSize
            THEN stop("nodeSplit3: assert leftOfLeft.nBytes <= BTreePageSize")
            ELSE [err |-> "", nodes |-> <<b.left, b.right, a.right>>]
        first(a) ==
            IF a.err # "" THEN stop(a.err)
            ELSE IF nBytes(a.left) <= BTreePageSize THEN [err |-> "", nodes |-> <<a.left, a.right>>]
            ELSE second(a, nodeSplit2(a.left))
    IN IF nBytes(old) > 3 * BTreePageSize + 2 * Header THEN stop("nodeSplit3: assert nBytes")
       ELSE IF nBytes(old) <= BTreePageSize THEN [err |-> "", nodes |-> <<old>>]
       ELSE first(nodeSplit2(old))

\* where the next entry goes in a buffer whose header announces n keys and
\* that holds the entries pre
NextPos(pre, n) == Header + (PointerSize + offsetSize) * n + SumBytes(pre, Len(pre))

\* the loop of nodeReplaceKidN: tree.new(kid), then nodeAppendKV of its first
\* key into a buffer of cap bytes.  Returns [s, e].
RECURSIVE ReplaceKids(_, _, _, _, _)
ReplaceKids(s, pre, kids, n, cap) ==
    LET put(a, kid) ==
            IF a.s.err # "" THEN [s |-> a.s, e |-> pre]
            ELSE IF nKeys(kid) = 0 THEN [s |-> SetErr(a.s, "getKey: assert idx < nKeys"), e |-> pre]
            ELSE IF NextPos(pre, n) + KeyLenSize + ValLenSize + KeyLen(getKey(kid, 0)) > cap
            THEN [s |-> SetErr(a.s, "nodeAppendKV: slice bounds out of range"), e |-> pre]
            ELSE ReplaceKids(a.s, Append(pre, Entry(getKey(kid, 0), 0, a.ptr)), Tail(kids), n, cap)
    IN IF kids = <<>> \/ s.err # "" THEN [s |-> s, e |-> pre]
       ELSE put(New(s, Head(kids)), Head(kids))

\* nodeAppendRange of the entries rest at the end of a buffer of cap bytes;
\* returns [s, node]
AppendRest(s, pre, rest, n, cap) ==
    IF s.err # "" THEN [s |-> s, node |-> NoNode]
    ELSE IF Len(rest) > 0 /\ NextPos(pre, n) > cap
    THEN [s |-> SetErr(s, "nodeAppendRange: slice bounds out of range"), node |-> NoNode]
    ELSE [s |-> s, node |-> MkNode(BNodeNode, pre \o rest)]

\* nodeReplaceKidN into a buffer of cap bytes; returns [s, node]
nodeReplaceKidN(s, srcNode, idx, kids, cap) ==
    LET rest(a, n) == AppendRest(a.s, a.e, Range(srcNode, idx + 1, nKeys(srcNode) - (idx + 1)), n, cap)
        loop(n) == rest(ReplaceKids(s, Range(srcNode, 0, idx), kids, n, cap), n)
    IN loop(nKeys(srcNode) + Len(kids) - 1)

\* nodeReplace2Kid into a buffer of one page, after tree.new(merged) returned a;
\* returns [s, node]
nodeReplace2Kid(a, srcNode, idx, key) ==
    LET put(pre, n) ==
            IF NextPos(pre, n) + KeyLenSize + ValLenSize + KeyLen(key) > BTreePageSize
            THEN [s |-> SetErr(a.s, "nodeAppendKV: slice bounds out of range"), node |-> NoNode]
            ELSE AppendRest(a.s, Append(pre, Entry(key, 0, a.ptr)),
                            Range(srcNode, idx + 2, nKeys(srcNode) - (idx + 2)), n, BTreePageSize)
    IN IF a.s.err # "" THEN [s |-> a.s, node |-> NoNode]
       ELSE put(Range(srcNode, 0, idx), nKeys(srcNode) - 1)

\* UpdateReq: Key, Val, Mode
Req(key, val, mode) == [key |-> key, val |-> val, mode |-> mode]

\* treeInsert returns [s, node, upd, add]; node = NoNode for a no-op
RECURSIVE treeInsert(_, _, _)
treeInsert(s, req, node) ==
    LET noop(st) == [s |-> st, node |-> NoNode, upd |-> FALSE, add |-> FALSE]
        linked(k, r) == [s |-> k.s, node |-> k.node, upd |-> r.upd, add |-> r.add]
        split(s1, idx, sp, r) ==
            IF sp.err # "" THEN noop(SetErr(s1, sp.err))
            ELSE linked(nodeReplaceKidN(s1, node, idx, sp.nodes, 2 * BTreePageSize), r)
        kid(idx, r) ==
            IF r.s.err # "" \/ r.node = NoNode THEN noop(r.s)
            ELSE split(Del(r.s, getPtr(node, idx)), idx, nodeSplit3(r.node), r)
        at(idx) ==
            IF bType(node) = BNodeLeaf THEN
               IF req.key = getKey(node, idx) THEN
                  IF req.mode = ModeInsertOnly \/ req.val = getVal(node, idx) THEN noop(s)
                  ELSE [s |-> s, node |-> leafUpdate(node, idx, req.key, req.val),
                        upd |-> TRUE, add |-> FALSE]
               ELSE IF req.mode = ModeUpdateOnly THEN noop(s)
               ELSE [s |-> s, node |-> leafInsert(node, idx + 1, req.key, req.val),
                     upd |-> TRUE, add |-> TRUE]
            ELSE kid(idx, treeInsert(GetS(s, getPtr(node, idx)), req, GetN(s, getPtr(node, idx))))
    IN IF s.err # "" THEN noop(s)
       ELSE IF bType(node) \notin {BNodeLeaf, BNodeNode} THEN noop(SetErr(s, "bad node!"))
       ELSE IF nKeys(node) = 0 THEN noop(SetErr(s, "getKey: assert idx < nKeys"))
       ELSE at(nodeLookupLE(node, req.key))

\* a shouldMerge that asks the right sibling first
shouldMerge_RightFirst(s, node, idx, updated) ==
    LET fits(sib) == nBytes(sib) + nBytes(updated) - Header <= BTreePageSize
        none(st) == [s |-> st, dir |-> 0, sibling |-> NoNode]
        left(s1, sib) ==
            IF s1.err = "" /\ fits(sib) THEN [s |-> s1, dir |-> -1, sibling |-> sib] ELSE none(s1)
        tryLeft(s1) ==
            IF s1.err = "" /\ idx > 0
            THEN left(GetS(s1, getPtr(node, idx - 1)), GetN(s1, getPtr(node, idx - 1)))
            ELSE none(s1)
        right(s1, sib) ==
            IF s1.err = "" /\ fits(sib) THEN [s |-> s1, dir |-> 1, sibling |-> sib]
            ELSE tryLeft(s1)
    IN IF nBytes(updated) > BTreePageSize \div 4 THEN none(s)
       ELSE IF idx + 1 < nKeys(node)
       THEN right(GetS(s, getPtr(node, idx + 1)), GetN(s, getPtr(node, idx + 1)))
       ELSE tryLeft(s)

\* shouldMerge returns [s, dir, sibling]; s records the tree.get calls it made
shouldMerge(s, node, idx, updated) ==
    LET fits(sib) == nBytes(sib) + nBytes(updated) - Header <= BTreePageSize
        none(st) == [s |-> st, dir |-> 0, sibling |-> NoNode]
        right(s1, sib) ==
            IF s1.err = "" /\ fits(sib) THEN [s |-> s1, dir |-> 1, sibling |-> sib] ELSE none(s1)
        tryRight(s1) ==
            IF s1.err = "" /\ idx + 1 < nKeys(node)
            THEN right(GetS(s1, getPtr(node, idx + 1)), GetN(s1, getPtr(node, idx + 1)))
            ELSE none(s1)
        left(s1, sib) ==
            IF s1.err = "" /\ fits(sib) THEN [s |-> s1, dir |-> -1, sibling |-> sib]
            ELSE tryRight(s1)
    IN IF nBytes(updated) > BTreePageSize \div 4 THEN none(s)
       ELSE IF idx > 0 THEN left(GetS(s, getPtr(node, idx - 1)), GetN(s, getPtr(node, idx - 1)))
       ELSE tryRight(s)

\* treeDelete / nodeDelete return [s, node]; node = NoNode when the key is absent
RECURSIVE treeDelete(_, _, _)
treeDelete(s, node, key) ==
    LET stop(st) == [s |-> st, node |-> NoNode]
        replace2(a, merged, at) ==
            IF a.s.err = "" /\ nKeys(merged) = 0 THEN stop(SetErr(a.s, "getKey: assert idx < nKeys"))
            ELSE nodeReplace2Kid(a, node, at, getKey(merged, 0))
        merge(s2, merged, gone, at) == replace2(New(Del(s2, gone), merged), merged, at)
        decide(m, idx, updated) ==
            IF m.s.err # "" THEN stop(m.s)
            ELSE IF m.dir < 0
            THEN merge(m.s, nodeMerge(m.sibling, updated), getPtr(node, idx - 1), idx - 1)
            ELSE IF m.dir > 0
            THEN merge(m.s, nodeMerge(updated, m.sibling), getPtr(node, idx + 1), idx)
            ELSE IF nKeys(updated) = 0 THEN
               IF nKeys(node) = 1 /\ idx = 0 THEN [s |-> m.s, node |-> MkNode(BNodeNode, <<>>)]
               ELSE stop(SetErr(m.s, "nodeDelete: assert nKeys == 1 && idx == 0"))
            ELSE nodeReplaceKidN(m.s, node, idx, <<updated>>, BTreePageSize)
        nodeDelete(idx, r) ==
            IF r.s.err # "" \/ r.node = NoNode THEN stop(r.s)
            ELSE decide(shouldMerge(Del(r.s, getPtr(node, idx)), node, idx, r.node), idx, r.node)
        at(idx) ==
            IF bType(node) = BNodeLeaf THEN
               IF key # getKey(node, idx) THEN stop(s)
               ELSE [s |-> s, node |-> leafDelete(node, idx)]
            ELSE nodeDelete(idx, treeDelete(GetS(s, getPtr(node, idx)),
                                            GetN(s, getPtr(node, idx)), key))
    IN IF s.err # "" THEN stop(s)
       ELSE IF bType(node) \notin {BNodeLeaf, BNodeNode} THEN stop(SetErr(s, "bad node!"))
       ELSE IF nKeys(node) = 0 THEN stop(SetErr(s, "getKey: assert idx < nKeys"))
       ELSE at(nodeLookupLE(node, key))

\* nodeGetKey returns [s, val, ok]
RECURSIVE nodeGetKey(_, _, _)
nodeGetKey(s, node, key) ==
    LET miss(st) == [s |-> st, val |-> 0, ok |-> FALSE]
        at(idx) ==
            IF bType(node) = BNodeLeaf THEN
               IF key = getKey(node, idx) THEN [s |-> s, val |-> getVal(node, idx), ok |-> TRUE]
               ELSE miss(s)
            ELSE nodeGetKey(GetS(s, getPtr(node, idx)), GetN(s, getPtr(node, idx)), key)
    IN IF s.err # "" THEN miss(s)
       ELSE IF bType(node) \notin {BNodeLeaf, BNodeNode} THEN miss(SetErr(s, "bad node!"))
       ELSE IF nKeys(node) = 0 THEN miss(SetErr(s, "getKey: assert idx < nKeys"))
       ELSE at(nodeLookupLE(node, key))

\* BTree.Get returns [s, val, ok]
BTreeGet(s, key) ==
    IF s.root = 0 THEN [s |-> s, val |-> 0, ok |-> FALSE]
    ELSE nodeGetKey(GetS(s, s.root), GetN(s, s.root), key)

\* tree.root = ptr, unless the process has ended
SetRoot(s, ptr) == IF s.err # "" THEN s ELSE [s EXCEPT !.root = ptr]

\* BTree.Delete without the removal of a level
BTreeDelete_NoShrink(s, key) ==
    LET ended(st) == [s |-> st, ret |-> st.err = ""]
        alloc(a) == ended(SetRoot(a.s, a.ptr))
        done(r) ==
            IF r.s.err # "" \/ r.node = NoNode THEN [s |-> r.s, ret |-> FALSE]
            ELSE alloc(New(Del(r.s, s.root), r.node))
    IN IF KeyLen(key) = 0 THEN [s |-> SetErr(s, "Delete: assert len(key) != 0"), ret |-> FALSE]
       ELSE IF KeyLen(key) > BTreeMaxKeySize
       THEN [s |-> SetErr(s, "Delete: assert len(key) <= BTreeMaxKeySize"), ret |-> FALSE]
       ELSE IF s.root = 0 THEN [s |-> s, ret |-> FALSE]
       ELSE done(treeDelete(GetS(s, s.root), GetN(s, s.root), key))

\* BTree.Delete without tree.del(tree.root)
BTreeDelete_KeepRoot(s, key) ==
    LET ended(st) == [s |-> st, ret |-> st.err = ""]
        alloc(a) == ended(SetRoot(a.s, a.ptr))
        done(r) ==
            IF r.s.err # "" \/ r.node = NoNode THEN [s |-> r.s, ret |-> FALSE]
            ELSE IF bType(r.node) = BNodeNode /\ nKeys(r.node) = 1
            THEN ended(SetRoot(r.s, getPtr(r.node, 0)))
            ELSE alloc(New(r.s, r.node))
    IN IF KeyLen(key) = 0 THEN [s |-> SetErr(s, "Delete: assert len(key) != 0"), ret |-> FALSE]
       ELSE IF KeyLen(key) > BTreeMaxKeySize
       THEN [s |-> SetErr(s, "Delete: assert len(key) <= BTreeMaxKeySize"), ret |-> FALSE]
       ELSE IF s.root = 0 THEN [s |-> s, ret |-> FALSE]
       ELSE done(treeDelete(GetS(s, s.root), GetN(s, s.root), key))

\* BTree.Delete returns [s, ret]
BTreeDelete(s, key) ==
    LET ended(st) == [s |-> st, ret |-> st.err = ""]
        alloc(a) == ended(SetRoot(a.s, a.ptr))
        done(r) ==
            IF r.s.err # "" \/ r.node = NoNode THEN [s |-> r.s, ret |-> FALSE]
            ELSE IF bType(r.node) = BNodeNode /\ nKeys(r.node) = 1
            THEN ended(SetRoot(Del(r.s, s.root), getPtr(r.node, 0)))
            ELSE alloc(New(Del(r.s, s.root), r.node))
    IN IF KeyLen(key) = 0 THEN [s |-> SetErr(s, "Delete: assert len(key) != 0"), ret |-> FALSE]
       ELSE IF KeyLen(key) > BTreeMaxKeySize
       THEN [s |-> SetErr(s, "Delete: assert len(key) <= BTreeMaxKeySize"), ret |-> FALSE]
       ELSE IF s.root = 0 THEN [s |-> s, ret |-> FALSE]
       ELSE done(treeDelete(GetS(s, s.root), GetN(s, s.root), key))

\* BTree.Update returns [s, ret, upd, add]
BTreeUpdate(s, req) ==
    LET fail(st) == [s |-> st, ret |-> FALSE, upd |-> FALSE, add |-> FALSE]
        alloc(a, upd, add) ==
            IF a.s.err # "" THEN fail(a.s)
            ELSE [s |-> SetRoot(a.s, a.ptr), ret |-> TRUE, upd |-> upd, add |-> add]
        newRoot(k, r) == alloc(New(k.s, MkNode(BNodeNode, k.e)), r.upd, r.add)
        split(sp, r) ==
            IF sp.err # "" THEN fail(SetErr(r.s, sp.err))
            ELSE IF Len(sp.nodes) > 1
            THEN newRoot(ReplaceKids(Del(r.s, s.root), <<>>, sp.nodes, Len(sp.nodes),
                                     BTreePageSize), r)
            ELSE alloc(New(Del(r.s, s.root), sp.nodes[1]), r.upd, r.add)
        done(r) == IF r.s.err # "" \/ r.node = NoNode THEN fail(r.s)
                   ELSE split(nodeSplit3(r.node), r)
    IN IF KeyLen(req.key) = 0 THEN fail(SetErr(s, "Update: assert len(Key) != 0"))
       ELSE IF KeyLen(req.key) > BTreeMaxKeySize
       THEN fail(SetErr(s, "Update: assert len(Key) <= BTreeMaxKeySize"))
       ELSE IF ValLen(req.val) > BTreeMaxValSize
       THEN fail(SetErr(s, "Update: assert len(Val) <= BTreeMaxValSize"))
       ELSE IF s.root = 0
       THEN alloc(New(s, MkNode(BNodeLeaf, <<Entry(0, 0, 0), Entry(req.key, req.val, 0)>>)),
                  TRUE, TRUE)
       ELSE done(treeInsert(GetS(s, s.root), req, GetN(s, s.root)))

\* BTree.Upsert
BTreeUpsert(s, key, val) == BTreeUpdate(s, Req(key, val, ModeUpsert))

(***************************************************************************)
(* B-tree iterator (src/core/btree_iter.go).  An iterator is the path of   *)
(* nodes from the root to a leaf and the position in each of them; err is  *)
(* the assertion or panic that ended the call.                             *)
(***************************************************************************)
NewIter == [path |-> <<>>, pos |-> <<>>, err |-> ""]
IterErr(it, e) == IF it.err # "" THEN it ELSE [it EXCEPT !.err = e]

iterIsFirst(it) == \A i \in 1..Len(it.pos) : it.pos[i] = 0
iterIsEnd(it) == \/ Len(it.path) = 0
                 \/ it.pos[Len(it.path)] >= nKeys(it.path[Len(it.path)])
\* BIter.Valid
Valid(it) == ~(iterIsFirst(it) \/ iterIsEnd(it))

\* BIter.Deref returns [err, key, val]
Deref(it) ==
    IF ~Valid(it) THEN [err |-> "Deref: assert iter.Valid()", key |-> 0, val |-> 0]
    ELSE [err |-> "",
          key |-> getKey(it.path[Len(it.path)], it.pos[Len(it.path)]),
          val |-> getVal(it.path[Len(it.path)], it.pos[Len(it.path)])]

\* iterNext; level counts from 0 at the root
RECURSIVE iterNext(_, _, _)
iterNext(s, it, level) ==
    LET kidAt(r, ptr) ==
            IF GetS(s, ptr).err # "" THEN IterErr(r, GetS(s, ptr).err)
            ELSE [r EXCEPT !.path[level + 2] = GetN(s, ptr), !.pos[level + 2] = 0]
        child(r) ==
            IF r.err # "" \/ level + 1 >= Len(r.pos) THEN r
            ELSE kidAt(r, getPtr(r.path[level + 1], r.pos[level + 1]))
        past(r) ==
            IF r.pos[Len(r.pos)] = nKeys(r.path[Len(r.pos)]) THEN r
            ELSE IterErr(r, "iterNext: assert pos[leaf] == nKeys")
    IN IF it.pos[level + 1] + 1 < nKeys(it.path[level + 1])
       THEN child([it EXCEPT !.pos[level + 1] = @ + 1])
       ELSE IF level > 0 THEN child(iterNext(s, it, level - 1))
       ELSE past([it EXCEPT !.pos[Len(it.pos)] = (@ + 1) % 65536])

\* iterPrev
RECURSIVE iterPrev(_, _, _)
iterPrev(s, it, level) ==
    LET kidAt(r, ptr) ==
            IF GetS(s, ptr).err # "" THEN IterErr(r, GetS(s, ptr).err)
            ELSE [r EXCEPT !.path[level + 2] = GetN(s, ptr),
                           !.pos[level + 2] = (nKeys(GetN(s, ptr)) - 1) % 65536]
        child(r) ==
            IF r.err # "" \/ level + 1 >= Len(r.pos) THEN r
            ELSE kidAt(r, getPtr(r.path[level + 1], r.pos[level + 1]))
    IN IF it.pos[level + 1] > 0 THEN child([it EXCEPT !.pos[level + 1] = @ - 1])
       ELSE IF level > 0 THEN child(iterPrev(s, it, level - 1))
       ELSE IterErr(it, "invalid iterPrev")

\* a Prev that does not leave the leaf
Prev_InLeaf(s, it) ==
    IF it.err = "" /\ Len(it.pos) > 0 /\ it.pos[Len(it.pos)] > 0
    THEN [it EXCEPT !.pos[Len(it.pos)] = @ - 1]
    ELSE it

\* BIter.Prev, BIter.Next
Prev(s, it) == IF it.err = "" /\ ~iterIsFirst(it) THEN iterPrev(s, it, Len(it.path) - 1) ELSE it
Next(s, it) == IF it.err = "" /\ ~iterIsEnd(it) THEN iterNext(s, it, Len(it.path) - 1) ELSE it

\* BTree.SeekLE
RECURSIVE seekFrom(_, _, _, _)
seekFrom(s, it, key, ptr) ==
    LET down(node, idx) ==
            seekFrom(s, [it EXCEPT !.path = Append(@, node), !.pos = Append(@, idx)],
                     key, getPtr(node, idx))
        at(node) == IF bType(node) \notin {BNodeLeaf, BNodeNode} \/ nKeys(node) = 0
                    THEN IterErr(it, "getKey: assert idx < nKeys")
                    ELSE down(node, nodeLookupLE(node, key))
    IN IF ptr = 0 \/ it.err # "" THEN it
       ELSE IF GetS(s, ptr).err # "" THEN IterErr(it, GetS(s, ptr).err)
       ELSE at(GetN(s, ptr))
SeekLE(s, key) == seekFrom(s, NewIter, key, s.root)

CmpGe == 3
CmpGt == 2
CmpLt == -2
CmpLe == -3
Cmps == {CmpGe, CmpGt, CmpLt, CmpLe}

\* cmpOK: key cmp ref, keys compared as bytes.Compare does
cmpOK(key, cmp, ref) ==
    IF cmp = CmpGe THEN key >= ref
    ELSE IF cmp = CmpGt THEN key > ref
    ELSE IF cmp = CmpLt THEN key < ref
    ELSE key <= ref

\* BTree.Seek
Seek(s, key, cmp) ==
    LET checked(it) ==
            IF it.err = "" /\ Valid(it) /\ ~cmpOK(Deref(it).key, cmp, key)
            THEN IterErr(it, "Seek: assert cmpOK(cur, cmp, key)")
            ELSE it
        cur(it) == IF iterIsFirst(it) THEN 0 ELSE Deref(it).key
        moved(it) ==
            IF cmp = CmpLe THEN it
            ELSE IF ~iterIsFirst(it) /\ Deref(it).err # "" THEN IterErr(it, Deref(it).err)
            ELSE IF KeyLen(key) = 0 \/ ~cmpOK(cur(it), cmp, key)
            THEN (IF cmp > 0 THEN Next(s, it) ELSE Prev(s, it))
            ELSE it
        found(it) ==
            IF it.err # "" THEN it
            ELSE IF ~(iterIsFirst(it) \/ ~iterIsEnd(it))
            THEN IterErr(it, "Seek: assert iterIsFirst(iter) || !iterIsEnd(iter)")
            ELSE checked(moved(it))
    IN found(SeekLE(s, key))

(***************************************************************************)
(* Order-preserving encoding of column values (src/unnamed/part_002).      *)
(* A byte string is a sequence of bytes.  An int64 is the sequence of the  *)
(* 8 bytes of its two's complement, most significant first, which is also  *)
(* what binary.BigEndian.PutUint64 writes for uint64(v.I64).               *)
(***************************************************************************)
TypeBytes == 1
TypeInt64 == 2

Zero64 == <<0, 0, 0, 0, 0, 0, 0, 0>>
ValBytes(str) == [Type |-> TypeBytes, I64 |-> Zero64, Str |-> str]
ValInt64(i) == [Type |-> TypeInt64, I64 |-> i, Str |-> <<>>]

\* an escapeString that escapes the null byte only
RECURSIVE escapeString_OnlyNull(_)
escapeString_OnlyNull(in) ==
    IF in = <<>> THEN <<>>
    ELSE (IF in[1] = 0 THEN <<1, 1>> ELSE <<in[1]>>) \o escapeString_OnlyNull(Tail(in))

\* escapeString: 00 -> 01 01, 01 -> 01 02
RECURSIVE escapeString(_)
escapeString(in) ==
    IF in = <<>> THEN <<>>
    ELSE (IF in[1] <= 1 THEN <<1, in[1] + 1>> ELSE <<in[1]>>) \o escapeString(Tail(in))

\* unescapeString returns [err, out]
RECURSIVE unescapeFrom(_, _, _)
unescapeFrom(in, i, out) ==
    IF i > Len(in) THEN [err |-> "", out |-> out]
    ELSE IF in[i] # 1 THEN unescapeFrom(in, i + 1, Append(out, in[i]))
    ELSE IF i + 1 > Len(in) THEN [err |-> "unescapeString: index out of range", out |-> out]
    ELSE IF in[i + 1] \notin {1, 2}
    THEN [err |-> "unescapeString: assert in[i] == 1 || in[i] == 2", out |-> out]
    ELSE unescapeFrom(in, i + 2, Append(out, in[i + 1] - 1))
unescapeString(in) ==
    IF \A i \in 1..Len(in) : in[i] # 1 THEN [err |-> "", out |-> in]
    ELSE unescapeFrom(in, 1, <<>>)

\* an encoding of int64 that keeps the sign bit
biasI64_None(i) == i
\* uint64(v.I64) + (1 << 63), modulo 2^64: only the top byte changes
biasI64(i) == [i EXCEPT ![1] = (@ + 128) % 256]
\* int64(u - (1 << 63))
unbiasU64(u) == [u EXCEPT ![1] = (@ + 256 - 128) % 256]

\* encodeValues
RECURSIVE encodeValues(_, _)
encodeValues(out, vals) ==
    IF vals = <<>> THEN out
    ELSE IF vals[1].Type = TypeInt64
    THEN encodeValues(out \o biasI64(vals[1].I64), Tail(vals))
    ELSE encodeValues(out \o escapeString(vals[1].Str) \o <<0>>, Tail(vals))

\* bytes.IndexByte(in, 0), counted from 0; -1 when there is none
IndexNull(in) ==
    IF \A i \in 1..Len(in) : in[i] # 0 THEN -1
    ELSE (CHOOSE i \in 1..Len(in) : in[i] = 0 /\ \A j \in 1..(i - 1) : in[j] # 0) - 1

\* out[i] = v
SetAt(out, i, v) == SubSeq(out, 1, i - 1) \o <<v>> \o SubSeq(out, i + 1, Len(out))

\* decodeValues returns [err, vals]: out with the decoded columns filled in
RECURSIVE decodeValues(_, _, _)
decodeValues(in, out, i) ==
    LET fail(e) == [err |-> e, vals |-> out]
        str(idx, u) ==
            IF u.err # "" THEN fail(u.err)
            ELSE decodeValues(SubSeq(in, idx + 2, Len(in)),
                              SetAt(out, i, [out[i] EXCEPT !.Str = u.out]), i + 1)
        bytesAt(idx) ==
            IF idx < 0 THEN fail("decodeValues: assert idx >= 0")
            ELSE str(idx, unescapeString(SubSeq(in, 1, idx)))
    IN IF i > Len(out)
       THEN (IF Len(in) = 0 THEN [err |-> "", vals |-> out]
             ELSE fail("decodeValues: assert len(in) == 0"))
       ELSE IF out[i].Type = TypeInt64
       THEN (IF Len(in) < 8 THEN fail("decodeValues: slice bounds out of range")
             ELSE decodeValues(SubSeq(in, 9, Len(in)),
                               SetAt(out, i, [out[i] EXCEPT !.I64 = unbiasU64(SubSeq(in, 1, 8))]),
                               i + 1))
       ELSE IF out[i].Type = TypeBytes THEN bytesAt(IndexNull(in))
       ELSE fail("unexpected type")

\* bytes.Compare(a, b) < 0
RECURSIVE BytesLess(_, _)
BytesLess(a, b) ==
    IF b = <<>> THEN FALSE
    ELSE IF a = <<>> THEN TRUE
    ELSE IF a[1] # b[1] THEN a[1] < b[1]
    ELSE BytesLess(Tail(a), Tail(b))

(***************************************************************************)
(* Tables (src/unnamed/part_002): the catalog tables @meta and @table and  *)
(* TableNew.  A DB is [data, err]: data is the content of db.kv, a map     *)
(* from encoded keys to encoded values, and err names the failed assertion *)
(* once the process has ended.  Strings are sequences of bytes.            *)
(***************************************************************************)
TablePrefixMin == 100
\* "next_prefix"
NextPrefixKey == <<110, 101, 120, 116, 95, 112, 114, 101, 102, 105, 120>>
TdefTable == [Name |-> "@table", Types |-> <<TypeBytes, TypeBytes>>,
              Cols |-> <<"name", "def">>, PKeys |-> 1, Prefix |-> 2]
TdefMeta == [Name |-> "@meta", Types |-> <<TypeBytes, TypeBytes>>,
             Cols |-> <<"key", "val">>, PKeys |-> 1, Prefix |-> 1]
NewDB == [data |-> <<>>, err |-> ""]

\* binary.BigEndian.PutUint32, binary.LittleEndian.PutUint32 / Uint32 (below 2^31)
PutUint32BE(n) == <<(n \div 16777216) % 256, (n \div 65536) % 256, (n \div 256) % 256, n % 256>>
PutUint32LE(n) == <<n % 256, (n \div 256) % 256, (n \div 65536) % 256, (n \div 16777216) % 256>>
Uint32LE(b) == b[1] + 256 * b[2] + 65536 * b[3] + 16777216 * b[4]

\* encodeKey
encodeKey(prefix, vals) == encodeValues(PutUint32BE(prefix), vals)

\* db.kv.Get and db.kv.Update of the table layer's KV
DbKvGet(db, key) == IF key \in DOMAIN db.data THEN [ok |-> TRUE, val |-> db.data[key]]
                    ELSE [ok |-> FALSE, val |-> <<>>]
DbKvUpdate(db, key, val, mode) ==
    IF key \in DOMAIN db.data
    THEN (IF mode = ModeInsertOnly \/ db.data[key] = val THEN db
          ELSE [db EXCEPT !.data = (key :> val) @@ db.data])
    ELSE (IF mode = ModeUpdateOnly THEN db
          ELSE [db EXCEPT !.data = (key :> val) @@ db.data])

\* dbGet for a record given in the order of the table's columns: [db, ok, vals]
dbGet(db, tdef, pkey) ==
    LET blank == [i \in 1..(Len(tdef.Cols) - tdef.PKeys) |->
                     [Type |-> tdef.Types[tdef.PKeys + i], I64 |-> Zero64, Str |-> <<>>]]
        decoded(d) == IF d.err # "" THEN [db |-> SetErr(db, d.err), ok |-> FALSE, vals |-> pkey]
                      ELSE [db |-> db, ok |-> TRUE, vals |-> pkey \o d.vals]
        got(g) == IF ~g.ok THEN [db |-> db, ok |-> FALSE, vals |-> pkey]
                  ELSE decoded(decodeValues(g.val, blank, 1))
    IN got(DbKvGet(db, encodeKey(tdef.Prefix, pkey)))

\* dbUpdate for a full record given in the order of the table's columns
dbUpdate(db, tdef, vals, mode) ==
    DbKvUpdate(db, encodeKey(tdef.Prefix, SubSeq(vals, 1, tdef.PKeys)),
               encodeValues(<<>>, SubSeq(vals, tdef.PKeys + 1, Len(vals))), mode)

\* tableDefCheck: TRUE when the definition is refused
tableDefCheck(tdef) ==
    \/ tdef.Name = <<>> \/ Len(tdef.Cols) = 0
    \/ Len(tdef.Cols) # Len(tdef.Types)
    \/ ~(1 <= tdef.PKeys /\ tdef.PKeys <= Len(tdef.Cols))

\* json.Marshal(tdef) for names of plain ASCII letters
RECURSIVE Decimal(_)
Decimal(n) == IF n < 10 THEN <<48 + n>> ELSE Decimal(n \div 10) \o <<48 + (n % 10)>>
RECURSIVE JsonList(_, _)
JsonList(items, i) ==
    IF i > Len(items) THEN <<>>
    ELSE (IF i > 1 THEN <<44>> ELSE <<>>) \o items[i] \o JsonList(items, i + 1)
JsonStr(b) == <<34>> \o b \o <<34>>
Marshal(tdef) ==
    <<123, 34, 78, 97, 109, 101, 34, 58>> \o JsonStr(tdef.Name)
    \o <<44, 34, 84, 121, 112, 101, 115, 34, 58, 91>>
    \o JsonList([i \in 1..Len(tdef.Types) |-> Decimal(tdef.Types[i])], 1)
    \o <<93, 44, 34, 67, 111, 108, 115, 34, 58, 91>>
    \o JsonList([i \in 1..Len(tdef.Cols) |-> JsonStr(tdef.Cols[i])], 1)
    \o <<93, 44, 34, 80, 75, 101, 121, 115, 34, 58>> \o Decimal(tdef.PKeys)
    \o <<44, 34, 80, 114, 101, 102, 105, 120, 34, 58>> \o Decimal(tdef.Prefix) \o <<125>>

\* a TableNew that stores the prefix it hands out as the next prefix
nextPrefixVal_Same(prefix) == PutUint32LE(prefix)
\* binary.LittleEndian.PutUint32(meta.Get("val").Str, tdef.Prefix+1)
nextPrefixVal(prefix) == PutUint32LE(prefix + 1)

\* DB.TableNew returns [db, err, tdef]: err is the error returned ("" for nil)
TableNew(db, tdef) ==
    LET ret(d, e, t) == [db |-> d, err |-> e, tdef |-> t]
        store(d, t) ==
            ret(dbUpdate(d, TdefTable, <<ValBytes(t.Name), ValBytes(Marshal(t))>>, ModeUpsert),
                "", t)
        alloc(prefix) ==
            store(dbUpdate(db, TdefMeta,
                           <<ValBytes(NextPrefixKey), ValBytes(nextPrefixVal(prefix))>>,
                           ModeUpsert),
                  [tdef EXCEPT !.Prefix = prefix])
        next(m) ==
            IF m.db.err # "" THEN ret(m.db, "", tdef)
            ELSE IF ~m.ok THEN alloc(TablePrefixMin)
            ELSE IF ~(Uint32LE(m.vals[2].Str) > TablePrefixMin)
            THEN ret(SetErr(db, "TableNew: assert tdef.Prefix > TablePrefixMin"), "", tdef)
            ELSE alloc(Uint32LE(m.vals[2].Str))
        exists(g) ==
            IF g.db.err # "" THEN ret(g.db, "", tdef)
            ELSE IF g.ok THEN ret(db, "table exists", tdef)
            ELSE IF tdef.Prefix # 0
            THEN ret(SetErr(db, "TableNew: assert tdef.Prefix == 0"), "", tdef)
            ELSE next(dbGet(db, TdefMeta, <<ValBytes(NextPrefixKey)>>))
    IN IF tableDefCheck(tdef) THEN ret(db, "bad table schema", tdef)
       ELSE exists(dbGet(db, TdefTable, <<ValBytes(tdef.Name)>>))

\* db.kv.Update that may fail returns [db, err]: an update that fails is
\* reverted and leaves the content as it was
DbKvUpdateF(db, key, val, mode, fail) ==
    IF fail THEN [db |-> db, err |-> "update failed"]
    ELSE [db |-> DbKvUpdate(db, key, val, mode), err |-> ""]

\* dbUpdate with the error of db.kv.Update returns [db, err]
dbUpdateF(db, tdef, vals, mode, fail) ==
    DbKvUpdateF(db, encodeKey(tdef.Prefix, SubSeq(vals, 1, tdef.PKeys)),
                encodeValues(<<>>, SubSeq(vals, tdef.PKeys + 1, Len(vals))), mode, fail)

\* a TableNew that stores the definition before it updates next_prefix
TableNewF_StoreFirst(db, tdef, f) ==
    LET ret(d, e, t, h) == [db |-> d, err |-> e, tdef |-> t, handed |-> h]
        bump(u, t) ==
            IF u.err # "" THEN ret(u.db, u.err, t, TRUE)
            ELSE ret(u.db, "", t, TRUE)
        store(u, t) ==
            IF u.err # "" THEN ret(u.db, u.err, t, FALSE)
            ELSE bump(dbUpdateF(u.db, TdefMeta,
                                <<ValBytes(NextPrefixKey), ValBytes(nextPrefixVal(t.Prefix))>>,
                                ModeUpsert, f = 2), t)
        alloc(t) ==
            store(dbUpdateF(db, TdefTable, <<ValBytes(t.Name), ValBytes(Marshal(t))>>,
                            ModeUpsert, f = 1), t)
        next(m) ==
            IF m.db.err # "" THEN ret(m.db, "", tdef, FALSE)
            ELSE IF ~m.ok THEN alloc([tdef EXCEPT !.Prefix = TablePrefixMin])
            ELSE IF ~(Uint32LE(m.vals[2].Str) > TablePrefixMin)
            THEN ret(SetErr(db, "TableNew: assert tdef.Prefix > TablePrefixMin"), "", tdef, FALSE)
            ELSE alloc([tdef EXCEPT !.Prefix = Uint32LE(m.vals[2].Str)])
        exists(g) ==
            IF g.db.err # "" THEN ret(g.db, "", tdef, FALSE)
            ELSE IF g.ok THEN ret(db, "table exists", tdef, FALSE)
            ELSE IF tdef.Prefix # 0
            THEN ret(SetErr(db, "TableNew: assert tdef.Prefix == 0"), "", tdef, FALSE)
            ELSE next(dbGet(db, TdefMeta, <<ValBytes(NextPrefixKey)>>))
    IN IF tableDefCheck(tdef) THEN ret(db, "bad table schema", tdef, FALSE)
       ELSE exists(dbGet(db, TdefTable, <<ValBytes(tdef.Name)>>))

\* DB.TableNew with a db.kv.Update that fails in the first dbUpdate (f = 1), in
\* the second (f = 2) or not at all (f = 0); returns [db, err, tdef, handed]:
\* handed tells that tdef.Prefix was assigned and next_prefix stored
TableNewF(db, tdef, f) ==
    LET ret(d, e, t, h) == [db |-> d, err |-> e, tdef |-> t, handed |-> h]
        stored(u, t) == ret(u.db, u.err, t, TRUE)
        store(u, t) ==
            IF u.err # "" THEN ret(u.db, u.err, t, FALSE)
            ELSE stored(dbUpdateF(u.db, TdefTable, <<ValBytes(t.Name), ValBytes(Marshal(t))>>,
                                  ModeUpsert, f = 2), t)
        alloc(prefix) ==
            store(dbUpdateF(db, TdefMeta,
                            <<ValBytes(NextPrefixKey), ValBytes(nextPrefixVal(prefix))>>,
                            ModeUpsert, f = 1),
                  [tdef EXCEPT !.Prefix = prefix])
        next(m) ==
            IF m.db.err # "" THEN ret(m.db, "", tdef, FALSE)
            ELSE IF ~m.ok THEN alloc(TablePrefixMin)
            ELSE IF ~(Uint32LE(m.vals[2].Str) > TablePrefixMin)
            THEN ret(SetErr(db, "TableNew: assert tdef.Prefix > TablePrefixMin"), "", tdef, FALSE)
            ELSE alloc(Uint32LE(m.vals[2].Str))
        exists(g) ==
            IF g.db.err # "" THEN ret(g.db, "", tdef, FALSE)
            ELSE IF g.ok THEN ret(db, "table exists", tdef, FALSE)
            ELSE IF tdef.Prefix # 0
            THEN ret(SetErr(db, "TableNew: assert tdef.Prefix == 0"), "", tdef, FALSE)
            ELSE next(dbGet(db, TdefMeta, <<ValBytes(NextPrefixKey)>>))
    IN IF tableDefCheck(tdef) THEN ret(db, "bad table schema", tdef, FALSE)
       ELSE exists(dbGet(db, TdefTable, <<ValBytes(tdef.Name)>>))

(***************************************************************************)
(* KV (src/btree/kv.go): Open, Get, Set, Del and the two-phase commit.     *)
(* A write reaches the cache of the file; a successful fsync makes the     *)
(* cache durable; a failed system call writes nothing.                     *)
(***************************************************************************)
DbSig == "BuildYourOwnDB06"

\* a KV struct before Open, over a file
NewKV(disk, cache) ==
    [kind |-> "KV", open |-> FALSE, root |-> 0, flushed |-> 0, nappend |-> 0, updates |-> <<>>,
     fl |-> [headPage |-> 0, headSeq |-> 0, tailPage |-> 0, tailSeq |-> 0, maxSeq |-> 0],
     failed |-> FALSE, err |-> "", disk |-> disk, cache |-> cache,
     alloc |-> {}, freed |-> {}, written |-> {}]

\* saveMeta
saveMeta(s) ==
    [sig |-> DbSig, root |-> s.root, flushed |-> s.flushed,
     headPage |-> s.fl.headPage, headSeq |-> s.fl.headSeq,
     tailPage |-> s.fl.tailPage, tailSeq |-> s.fl.tailSeq]

\* loadMeta
loadMeta(s, data) ==
    IF ~IsMeta(data) THEN SetErr(s, "invalid db file")
    ELSE IF data.sig # DbSig THEN SetErr(s, "invalid db file")
    ELSE [s EXCEPT !.root = data.root, !.flushed = data.flushed,
                   !.fl.headPage = data.headPage, !.fl.headSeq = data.headSeq,
                   !.fl.tailPage = data.tailPage, !.fl.tailSeq = data.tailSeq]

\* fileSize & BTreePageSize, for the one-bit constant BTreePageSize
AndPageSize(fileSize) == ((fileSize \div BTreePageSize) % 2) * BTreePageSize

\* readRoot returns [s, ret]
readRoot(s, fileSize) ==
    LET valid(db) ==
            /\ 0 < db.flushed /\ db.flushed <= fileSize \div BTreePageSize
            /\ 0 < db.root /\ db.root < db.flushed
            /\ 0 < db.fl.headPage /\ db.fl.headPage < db.flushed
            /\ 0 < db.fl.tailPage /\ db.fl.tailPage < db.flushed
        loaded(db) == IF db.err # "" THEN [s |-> db, ret |-> "panic"]
                      ELSE IF valid(db) THEN [s |-> SetMaxSeq(db), ret |-> "ok"]
                      ELSE [s |-> SetMaxSeq(db), ret |-> "bad meta page"]
    IN IF AndPageSize(fileSize) # 0
       THEN [s |-> s, ret |-> "file size must be a multiple of the page size"]
       ELSE IF fileSize = 0
       THEN [s |-> [s EXCEPT !.flushed = 2, !.fl.headPage = 1, !.fl.tailPage = 1], ret |-> "ok"]
       ELSE loaded(loadMeta(s, FilePage(s, 0)))

\* the size of the file in bytes
FileSize(disk, cache) == Cardinality(DOMAIN disk \cup DOMAIN cache) * BTreePageSize

\* KV.Open on a new KV struct over a file of fileSize bytes returns [s, ret];
\* a failed Open closes the file
OpenFile(disk, cache, fileSize) ==
    LET opened(r) == IF r.ret = "ok" THEN r ELSE [s |-> [r.s EXCEPT !.open = FALSE], ret |-> r.ret]
    IN opened(readRoot([NewKV(disk, cache) EXCEPT !.open = TRUE], fileSize))

\* KV.Open over a file of whole pages
Open(disk, cache) == OpenFile(disk, cache, FileSize(disk, cache))

\* syscall.Pwrite of one page
Pwrite(s, ptr, page) ==
    [s EXCEPT !.cache = [i \in (DOMAIN s.cache) \cup {ptr} |-> IF i = ptr THEN page ELSE s.cache[i]]]

\* a pending write that repeats the durable content of its page is no write
Pending(s) == {i \in DOMAIN s.cache : i \notin DOMAIN s.disk \/ s.cache[i] # s.disk[i]}
Settle(s) == [s EXCEPT !.cache = [i \in Pending(s) |-> s.cache[i]]]

\* syscall.Fsync that succeeds
Fsync(s) ==
    [s EXCEPT !.disk = [i \in (DOMAIN s.disk) \cup (DOMAIN s.cache) |-> FilePage(s, i)],
              !.cache = <<>>]

\* the loop of writePages over the pages W
PwriteAll(s, W) ==
    [s EXCEPT !.cache = [i \in (DOMAIN s.cache) \cup W |->
                             IF i \in W THEN s.updates[i] ELSE s.cache[i]],
              !.written = W]

\* writePages returns [s, err]; under the fault "page" the write that fails
\* comes after the pages fault.w were written
writePages(s, fault) ==
    IF fault.at = "page" THEN [s |-> PwriteAll(s, fault.w), err |-> TRUE]
    ELSE [s |-> [PwriteAll(s, DOMAIN s.updates) EXCEPT !.flushed = s.flushed + s.nappend,
                                                       !.nappend = 0,
                                                       !.updates = <<>>],
          err |-> FALSE]

\* updateRoot
updateRoot(s) == Pwrite(s, 0, saveMeta(s))

\* updateFile returns [s, err]
updateFile(s, fault) ==
    LET synced2(st) == [s |-> [SetMaxSeq(st) EXCEPT !.freed = {}], err |-> FALSE]
        rooted(st) == IF fault.at = "sync2" THEN [s |-> st, err |-> TRUE]
                      ELSE synced2(Fsync(st))
        synced1(st) == IF fault.at = "meta" THEN [s |-> st, err |-> TRUE]
                       ELSE rooted(updateRoot(st))
        written(w) == IF w.err THEN w
                      ELSE IF fault.at = "sync1" THEN [s |-> w.s, err |-> TRUE]
                      ELSE synced1(Fsync(w.s))
    IN written(writePages(s, fault))

\* updateOrRevert returns [s, ret]
updateOrRevert(s, meta, fault) ==
    LET revert(st) == [loadMeta([st EXCEPT !.failed = TRUE], meta)
                          EXCEPT !.nappend = 0, !.updates = <<>>, !.freed = {}]
        updated(r) == IF r.err THEN [s |-> Settle(revert(r.s)), ret |-> "err"]
                      ELSE [s |-> Settle(r.s), ret |-> "ok"]
        rewritten(st) == IF fault.at = "resync" THEN [s |-> Settle(st), ret |-> "err"]
                         ELSE updated(updateFile([Fsync(st) EXCEPT !.failed = FALSE], fault))
    IN IF s.failed
       THEN IF fault.at = "rewrite" THEN [s |-> s, ret |-> "err"]
            ELSE rewritten(Pwrite(s, 0, meta))
       ELSE updated(updateFile(s, fault))

\* the system calls of a commit that can fail, and for a failing page write
\* the pages written before it (the loop follows the order of a Go map)
FaultsOf(s) ==
    {[at |-> a, w |-> {}] : a \in {"none", "sync1", "meta", "sync2"}}
    \cup {[at |-> a, w |-> {}] : a \in IF s.failed THEN {"rewrite", "resync"} ELSE {}}
    \cup {[at |-> "page", w |-> W] : W \in (SUBSET DOMAIN s.updates) \ {DOMAIN s.updates}}

\* KV.Get
KVGet(s, key) == BTreeGet(s, key)

\* what Get returns for every key: [val, ok] or "panic"
KVKeys == {2, 3}
KVVals == {1, 2}
GetMap(s) ==
    LET answer(g) == IF g.s.err # "" THEN [val |-> 0, ok |-> FALSE, panic |-> TRUE]
                     ELSE [val |-> g.val, ok |-> g.ok, panic |-> FALSE]
    IN [k \in KVKeys |-> answer(KVGet(s, k))]

\* the pages of the tree under ptr, parents first, as the store reads them
RECURSIVE TreePages(_, _, _)
RECURSIVE KidPages(_, _, _, _)
TreePages(s, ptr, fuel) ==
    IF fuel = 0 \/ ptr = 0 \/ GetS(s, ptr).err # "" THEN <<>>
    ELSE IF bType(GetN(s, ptr)) = BNodeNode
    THEN <<ptr>> \o KidPages(s, GetN(s, ptr), 0, fuel - 1)
    ELSE <<ptr>>
KidPages(s, node, i, fuel) ==
    IF i >= nKeys(node) THEN <<>>
    ELSE TreePages(s, getPtr(node, i), fuel) \o KidPages(s, node, i + 1, fuel)

(***************************************************************************)
(* Harness C keys its pages by the address of the node's buffer, which the *)
(* allocator chooses.  Two harness states that differ only in those        *)
(* addresses are the same state; Canon names the pages 1..n in preorder    *)
(* from the root, followed by the pages no pointer reaches.                *)
(***************************************************************************)
RECURSIVE Preorder(_, _)
RECURSIVE PreorderKids(_, _, _)
Preorder(pages, ptr) ==
    IF ptr \notin DOMAIN pages THEN <<>>
    ELSE IF bType(pages[ptr]) = BNodeNode THEN <<ptr>> \o PreorderKids(pages, pages[ptr], 0)
    ELSE <<ptr>>
PreorderKids(pages, node, i) ==
    IF i >= nKeys(node) THEN <<>>
    ELSE Preorder(pages, getPtr(node, i)) \o PreorderKids(pages, node, i + 1)

RECURSIVE SortedSeq(_)
SortedSeq(S) ==
    IF S = {} THEN <<>>
    ELSE LET m == CHOOSE x \in S : \A y \in S : x <= y IN <<m>> \o SortedSeq(S \ {m})

SeqRange(q) == {q[i] : i \in 1..Len(q)}

Canon(s) ==
    LET name(order, ptr) == IF ptr \in SeqRange(order)
                            THEN CHOOSE i \in 1..Len(order) : order[i] = ptr ELSE 0
        rename(order, node) ==
            IF bType(node) = BNodeNode
            THEN MkNode(BNodeNode, [i \in 1..nKeys(node) |->
                     [node.e[i] EXCEPT !.p = name(order, node.e[i].p)]])
            ELSE node
        named(order) ==
            IF Len(order) # Cardinality(DOMAIN s.pages) THEN s
            ELSE [s EXCEPT !.root = name(order, s.root),
                           !.pages = [i \in 1..Len(order) |-> rename(order, s.pages[order[i]])]]
        rest(pre) == named(pre \o SortedSeq((DOMAIN s.pages) \ SeqRange(pre)))
    IN IF s.err # "" THEN s ELSE rest(Preorder(s.pages, s.root))

VARIABLES
    tree,    \* harness C: the store of kind "C" (BTree.root and the pages map)
    ref,     \* harness C: the reference map, key -> value
    lh,      \* harness L: the store of kind "L" (FreeList and the pages map)
    kv,      \* the KV struct and its file (durable pages and unsynced writes)
    obs,     \* what the last operation returned and what it started from
    last     \* the operation that produced the state

vars == <<tree, ref, lh, kv, obs, last>>

\* newC
NewC == [kind |-> "C", root |-> 0, pages |-> <<>>, err |-> "", big |-> FALSE]
\* first id newL appends list nodes at, first id the tests push
AppendBase == 1000
PushBase == 10000
\* pushes of one run of harness L
MaxPush == 9
\* newL
NewL == [kind |-> "L", pages |-> (1 :> ZeroPage), appendNum |-> AppendBase,
         fl |-> [headPage |-> 1, headSeq |-> 0, tailPage |-> 1, tailSeq |-> 0, maxSeq |-> 0],
         err |-> "", added |-> <<>>, removed |-> <<>>]
NoObs == [op |-> "none"]

TreeInit == /\ tree = NewC
            /\ ref = <<>>
            /\ lh = NewL
            /\ kv = NewKV(<<>>, <<>>)
            /\ obs = NoObs
            /\ last = "init"

\* C.add: tree.Upsert(key, val); ref[key] = val
CAdd(key, val) ==
    /\ tree.err = ""
    /\ tree' = Canon(BTreeUpsert(tree, key, val).s)
    /\ ref' = IF tree'.err = "" THEN MapSet(ref, key, val) ELSE ref
    /\ last' = "add"
    /\ UNCHANGED <<lh, kv, obs>>

\* C.del: delete(ref, key); tree.Delete(key)
CDelete(key) ==
    /\ tree.err = ""
    /\ tree' = Canon(BTreeDelete(tree, key).s)
    /\ ref' = MapDel(ref, key)
    /\ last' = "del"
    /\ UNCHANGED <<lh, kv, obs>>

TreeNext == \/ \E k \in Keys, v \in Vals : CAdd(k, v)
            \/ \E k \in Keys : CDelete(k)

SpecTree == TreeInit /\ [][TreeNext]_vars

(***************************************************************************)
(* BTree.Update with the three modes and BTree.Delete on harness C's page  *)
(* store, with what each call returned.                                    *)
(***************************************************************************)
\* keys of the runs that record the result of every call
NumUpdKeys == 4
UpdKeys == 1..NumUpdKeys
Modes == {ModeUpsert, ModeUpdateOnly, ModeInsertOnly}

\* C.get for every key: the value found, 0 when not found
TreeMap(s) ==
    [k \in UpdKeys |-> LET val(g) == IF g.ok THEN g.val ELSE 0 IN val(BTreeGet(s, k))]

UpdInit == /\ tree = NewC
           /\ ref = <<>>
           /\ lh = NewL
           /\ kv = NewKV(<<>>, <<>>)
           /\ obs = NoObs
           /\ last = "init"

\* tree.Update(&UpdateReq{Key: key, Val: val, Mode: mode})
UUpdate(key, val, mode) ==
    LET seen(r) == [op |-> "update", key |-> key, val |-> val, mode |-> mode,
                    ret |-> r.ret, upd |-> r.upd, add |-> r.add,
                    same |-> r.s.root = tree.root /\ DOMAIN r.s.pages = DOMAIN tree.pages,
                    noRoot |-> tree.root = 0,
                    pre |-> TreeMap(tree),
                    again |-> /\ obs.op = "update" /\ obs.key = key
                              /\ obs.val = val /\ obs.mode = mode]
        done(r) == /\ tree' = Canon(r.s)
                   /\ obs' = seen(r)
    IN /\ tree.err = ""
       /\ done(BTreeUpdate(tree, Req(key, val, mode)))
       /\ last' = "update"
       /\ UNCHANGED <<ref, lh, kv>>

\* tree.Delete(key)
UDelete(key) ==
    LET seen(r) == [op |-> "delete", key |-> key, ret |-> r.ret,
                    same |-> r.s.root = tree.root /\ DOMAIN r.s.pages = DOMAIN tree.pages,
                    pre |-> TreeMap(tree)]
        done(r) == /\ tree' = Canon(r.s)
                   /\ obs' = seen(r)
    IN /\ tree.err = ""
       /\ done(BTreeDelete(tree, key))
       /\ last' = "delete"
       /\ UNCHANGED <<ref, lh, kv>>

UpdNext == \/ \E k \in UpdKeys, v \in Vals, m \in Modes : UUpdate(k, v, m)
           \/ \E k \in UpdKeys : UDelete(k)

SpecUpd == UpdInit /\ [][UpdNext]_vars

(***************************************************************************)
(* The public operations of the tree with any key, the empty key included  *)
(* (TestEdgeCases, src/unnamed/part_007), on harness C's page store.       *)
(***************************************************************************)
\* the empty key and the keys of UpdKeys
EdgeKeys == {0} \cup UpdKeys

EdgeInit == /\ tree = NewC
            /\ ref = <<>>
            /\ lh = NewL
            /\ kv = NewKV(<<>>, <<>>)
            /\ obs = NoObs
            /\ last = "init"

\* what a call left of the store: the same root and the same pages
Untouched(s) == s.root = tree.root /\ s.pages = tree.pages

\* c.get(key)
EGet(key) ==
    LET seen(g) == [op |-> "get", key |-> key, ok |-> g.ok, err |-> g.s.err,
                    same |-> Untouched(g.s), noRoot |-> tree.root = 0]
    IN /\ tree.err = ""
       /\ obs' = seen(BTreeGet(tree, key))
       /\ last' = "get"
       /\ UNCHANGED <<tree, ref, lh, kv>>

\* tree.Update(&UpdateReq{Key: key, Val: val, Mode: mode})
EUpdate(key, val, mode) ==
    LET done(r) == /\ tree' = Canon(r.s)
                   /\ obs' = [op |-> "update", key |-> key, ok |-> r.ret, err |-> r.s.err,
                              same |-> Untouched(r.s), noRoot |-> tree.root = 0]
    IN /\ tree.err = ""
       /\ done(BTreeUpdate(tree, Req(key, val, mode)))
       /\ last' = "update"
       /\ UNCHANGED <<ref, lh, kv>>

\* c.del(key)
EDelete(key) ==
    LET done(r) == /\ tree' = Canon(r.s)
                   /\ obs' = [op |-> "delete", key |-> key, ok |-> r.ret, err |-> r.s.err,
                              same |-> Untouched(r.s), noRoot |-> tree.root = 0]
    IN /\ tree.err = ""
       /\ done(BTreeDelete(tree, key))
       /\ last' = "delete"
       /\ UNCHANGED <<ref, lh, kv>>

EdgeNext == \/ \E k \in EdgeKeys : EGet(k)
            \/ \E k \in EdgeKeys, v \in Vals, m \in Modes : EUpdate(k, v, m)
            \/ \E k \in EdgeKeys : EDelete(k)

SpecEdge == EdgeInit /\ [][EdgeNext]_vars

(***************************************************************************)
(* Iterators over trees that harness C built (TestBTreeIter,               *)
(* src/core/btree_iter_test.go).                                           *)
(***************************************************************************)
\* c.add(key, val) for the keys of S in ascending order, from key k on
RECURSIVE AddAll(_, _, _, _)
AddAll(s, S, val, k) ==
    IF k > NumKeys THEN s
    ELSE IF k \in S THEN AddAll(BTreeUpsert(s, k, val).s, S, val, k + 1)
    ELSE AddAll(s, S, val, k + 1)

\* the trees of the iterator tests: any set of keys, added in ascending order
IterTrees == {t \in {Canon(AddAll(NewC, S, v, 1)) : S \in SUBSET Keys, v \in Vals} : t.err = ""}

IterInit == /\ tree \in IterTrees
            /\ ref = <<>>
            /\ lh = NewL
            /\ kv = NewKV(<<>>, <<>>)
            /\ obs = [op |-> "none", it |-> NewIter]
            /\ last = "init"

\* iter := c.tree.SeekLE(key)
ISeekLE(key) ==
    /\ obs' = [op |-> "seek", key |-> key, cmp |-> CmpLe, asserted |-> FALSE,
               it |-> SeekLE(tree, key)]
    /\ last' = "seek"
    /\ UNCHANGED <<tree, ref, lh, kv>>

\* iter := c.tree.Seek(key, cmp)
ISeek(key, cmp) ==
    /\ obs' = [op |-> "seek", key |-> key, cmp |-> cmp, asserted |-> TRUE,
               it |-> Seek(tree, key, cmp)]
    /\ last' = "seek"
    /\ UNCHANGED <<tree, ref, lh, kv>>

\* iter.Next(); obs keeps the iterator before the call and, after a Prev, the
\* iterator that Prev started from
INext ==
    /\ obs.op # "none" /\ obs.it.err = ""
    /\ obs' = [op |-> "next", it |-> Next(tree, obs.it), pre |-> obs.it,
               orig |-> IF obs.op = "prev" THEN obs.pre ELSE NewIter]
    /\ last' = "next"
    /\ UNCHANGED <<tree, ref, lh, kv>>

\* iter.Prev()
IPrev ==
    /\ obs.op # "none" /\ obs.it.err = ""
    /\ obs' = [op |-> "prev", it |-> Prev(tree, obs.it), pre |-> obs.it]
    /\ last' = "prev"
    /\ UNCHANGED <<tree, ref, lh, kv>>

IterNext == \/ \E k \in Keys \cup {0} : ISeekLE(k)
            \/ \E k \in Keys, c \in Cmps : ISeek(k, c)
            \/ INext
            \/ IPrev

SpecIter == IterInit /\ [][IterNext]_vars

(***************************************************************************)
(* Table scans (Scanner and dbScan, src/unnamed/part_002).  The rows of    *)
(* the scanned table are the keys of the tree; a key of the model stands   *)
(* for the encoded primary key of a row, in the order of the encoded       *)
(* bytes.                                                                  *)
(***************************************************************************)
\* dbScan returns the scanner, err = "bad range" when it refuses the request
dbScan(s, cmp1, key1, cmp2, key2) ==
    LET began(it) == [Cmp1 |-> cmp1, Cmp2 |-> cmp2, Key1 |-> key1, Key2 |-> key2,
                      keyEnd |-> key2, iter |-> it, err |-> it.err]
    IN IF (cmp1 > 0 /\ cmp2 < 0) \/ (cmp2 > 0 /\ cmp1 < 0)
       THEN began(Seek(s, key1, cmp1))
       ELSE [Cmp1 |-> cmp1, Cmp2 |-> cmp2, Key1 |-> key1, Key2 |-> key2,
             keyEnd |-> 0, iter |-> NewIter, err |-> "bad range"]

\* Scanner.Valid
ScannerValid(sc) ==
    /\ Valid(sc.iter)
    /\ cmpOK(Deref(sc.iter).key, sc.Cmp2, sc.keyEnd)

\* Scanner.Next
ScannerNext(s, sc) ==
    LET moved(it) == [sc EXCEPT !.iter = it, !.err = it.err]
    IN IF ~ScannerValid(sc) THEN [sc EXCEPT !.err = "Scanner.Next: assert sc.Valid()"]
       ELSE IF sc.Cmp1 > 0 THEN moved(Next(s, sc.iter))
       ELSE moved(Prev(s, sc.iter))

\* rows of one scan that are recorded
MaxRows == 9
\* the trees of the scans: no key, every second key, all keys but one, all keys
ScanTrees ==
    {t \in {Canon(AddAll(NewC, S, v, 1)) :
               S \in {{}, {2, 4, 6}} \cup {X \in SUBSET Keys : Cardinality(X) >= NumKeys - 1},
               v \in Vals} : t.err = ""}

ScanInit == /\ tree \in ScanTrees
            /\ ref = <<>>
            /\ lh = NewL
            /\ kv = NewKV(<<>>, <<>>)
            /\ obs = [op |-> "none"]
            /\ last = "init"

\* err := db.Scan(table, &sc)
SScan(cmp1, key1, cmp2, key2) ==
    /\ obs.op = "none"
    /\ obs' = [op |-> "scan", sc |-> dbScan(tree, cmp1, key1, cmp2, key2),
               rows |-> <<>>, turn |-> 0, done |-> FALSE]
    /\ last' = "scan"
    /\ UNCHANGED <<tree, ref, lh, kv>>

\* one turn of the loop: for sc.Valid() { sc.Deref(&got); ...; sc.Next() };
\* rows keeps the first MaxRows rows of the scan, turn the parity of the turns
SStep ==
    /\ obs.op = "scan" /\ obs.sc.err = "" /\ ~obs.done
    /\ obs' = IF ScannerValid(obs.sc)
              THEN [obs EXCEPT !.rows = IF Len(@) < MaxRows
                                        THEN Append(@, <<Deref(obs.sc.iter).key,
                                                         Deref(obs.sc.iter).val>>)
                                        ELSE @,
                               !.turn = 1 - @,
                               !.sc = ScannerNext(tree, obs.sc)]
              ELSE [obs EXCEPT !.done = TRUE]
    /\ last' = "step"
    /\ UNCHANGED <<tree, ref, lh, kv>>

ScanNext == \/ \E c1 \in Cmps, k1 \in Keys, c2 \in Cmps, k2 \in Keys : SScan(c1, k1, c2, k2)
            \/ SStep

SpecScan == ScanInit /\ [][ScanNext]_vars
\* the loop of a scan keeps running while it may
LiveScan == SpecScan /\ WF_vars(SStep)

(***************************************************************************)
(* Scans of one table in a database of several tables                     *)
(* (src/unnamed/part_002).  Key k of the tree stands for the encoded key   *)
(* of a row, encodeKey(RowPrefix(k), <<k>>): the rows of @meta, of @table  *)
(* and of two tables follow one another in the tree.                       *)
(***************************************************************************)
NumRowKeys == 8
RowKeys == (1..NumRowKeys) \ {2}
\* the prefix of the table of row k: @meta, @table, the first two tables
RowPrefix(k) == IF k = 0 THEN 0
                ELSE IF k <= 3 THEN 1
                ELSE IF k <= 5 THEN 2
                ELSE IF k <= 7 THEN TablePrefixMin
                ELSE TablePrefixMin + 1
\* the encoded key of row k
RowKey(k) == encodeKey(RowPrefix(k), <<ValInt64(<<0, 0, 0, 0, 0, 0, 0, k>>)>>)

\* c.add of the rows of S in ascending order, from row k on; the last two
\* rows take the value lastVal, the others the value val
RECURSIVE AddRows(_, _, _, _, _)
AddRows(s, S, val, lastVal, k) ==
    IF k > NumRowKeys THEN s
    ELSE IF k \in S
    THEN AddRows(BTreeUpsert(s, k, IF k >= NumRowKeys - 1 THEN lastVal ELSE val).s,
                 S, val, lastVal, k + 1)
    ELSE AddRows(s, S, val, lastVal, k + 1)

\* the databases of the scans: all rows, or all rows but one
RowTrees ==
    {t \in {Canon(AddRows(NewC, S, v, w, 1)) :
               S \in {X \in SUBSET RowKeys : Cardinality(X) >= Cardinality(RowKeys) - 1},
               v \in Vals, w \in Vals} : t.err = ""}

RowsInit == /\ tree \in RowTrees
            /\ ref = <<>>
            /\ lh = NewL
            /\ kv = NewKV(<<>>, <<>>)
            /\ obs = [op |-> "none"]
            /\ last = "init"

\* db.Scan(table, &sc): both ends of the range are keys of the table
RowsNext == \/ \E c1 \in Cmps, k1 \in RowKeys, c2 \in Cmps, k2 \in RowKeys :
                  RowPrefix(k1) = RowPrefix(k2) /\ SScan(c1, k1, c2, k2)
            \/ SStep

SpecRows == RowsInit /\ [][RowsNext]_vars

(***************************************************************************)
(* Encoding and decoding of pairs of rows (TestStringEscape and            *)
(* TestTableEncoding, src/core/table_test.go).                             *)
(***************************************************************************)
\* longest byte string of the encoding runs
MaxStrLen == 2
\* bytes of the strings: the two escaped bytes and the first plain byte
StrBytes == {0, 1, 2}
Strs == UNION {[1..n -> StrBytes] : n \in 0..MaxStrLen}
\* math.MinInt64, -1, 0, +1, math.MaxInt64
Ints == {<<128, 0, 0, 0, 0, 0, 0, 0>>,
         <<255, 255, 255, 255, 255, 255, 255, 255>>,
         Zero64,
         <<0, 0, 0, 0, 0, 0, 0, 1>>,
         <<127, 255, 255, 255, 255, 255, 255, 255>>}
ValuesOf(t) == IF t = TypeInt64 THEN {ValInt64(i) : i \in Ints} ELSE {ValBytes(x) : x \in Strs}
\* the column types of the rows
ColTypes == {<<TypeInt64>>, <<TypeBytes>>, <<TypeInt64, TypeBytes>>, <<TypeBytes, TypeInt64>>}
RowsOf(ts) == {r \in [1..Len(ts) -> UNION {ValuesOf(t) : t \in {TypeInt64, TypeBytes}}] :
                  \A i \in 1..Len(ts) : r[i].Type = ts[i]}
\* out := []Value{{Type: t}, ...}
Blank(ts) == [i \in 1..Len(ts) |-> [Type |-> ts[i], I64 |-> Zero64, Str |-> <<>>]]

RowPairs == UNION {{[op |-> "rows", types |-> ts, a |-> a, b |-> b] :
                       a \in RowsOf(ts), b \in RowsOf(ts)} : ts \in ColTypes}
StrInputs == {[op |-> "string", s |-> str] : str \in Strs}

EncInit == /\ tree = NewC
           /\ ref = <<>>
           /\ lh = NewL
           /\ kv = NewKV(<<>>, <<>>)
           /\ obs \in RowPairs \cup StrInputs
           /\ last = "init"

\* b := encodeValues(nil, v); decodeValues(b, out), for two rows of one table
Encode ==
    /\ last = "init" /\ obs.op = "rows"
    /\ obs' = [op |-> "encode", types |-> obs.types, a |-> obs.a, b |-> obs.b,
               ea |-> encodeValues(<<>>, obs.a), eb |-> encodeValues(<<>>, obs.b),
               da |-> decodeValues(encodeValues(<<>>, obs.a), Blank(obs.types), 1)]
    /\ last' = "encode"
    /\ UNCHANGED <<tree, ref, lh, kv>>

\* s2 := unescapeString(escapeString(s))
Escape ==
    /\ last = "init" /\ obs.op = "string"
    /\ obs' = [op |-> "escape", s |-> obs.s, b |-> escapeString(obs.s),
               s2 |-> unescapeString(escapeString(obs.s))]
    /\ last' = "escape"
    /\ UNCHANGED <<tree, ref, lh, kv>>

EncNext == Encode \/ Escape

SpecEnc == EncInit /\ [][EncNext]_vars

(***************************************************************************)
(* Harness R of the table tests (newR, src/core/table_test.go): TableNew   *)
(* on a database that starts empty.  ref lists the definitions of the      *)
(* calls that returned nil, in the order of the calls.                     *)
(***************************************************************************)
\* the tables that the runs create at most
MaxTables == 3
\* table names "", "a", "b", "c"
TableNames == {<<>>} \cup {<<96 + i>> : i \in 1..MaxTables}
\* (ki int64), (ki int64, s bytes)
Shapes == {[Types |-> <<TypeInt64>>, Cols |-> <<(<<107, 105>>)>>],
           [Types |-> <<TypeInt64, TypeBytes>>, Cols |-> <<(<<107, 105>>), (<<115>>)>>]}
\* definitions with every name, shape and number of key columns, and some
\* that carry a prefix already
TableDefs == {d \in [Name : TableNames, Types : {sh.Types : sh \in Shapes},
                     Cols : {sh.Cols : sh \in Shapes}, PKeys : 0..2, Prefix : {0, 7}] :
                 d.Prefix # 0 => d.Name = <<97>> /\ d.PKeys = 1}

TblInit == /\ tree = NewC
           /\ ref = <<>>
           /\ lh = NewL
           /\ kv = NewDB
           /\ obs = [op |-> "none"]
           /\ last = "init"

\* r.db.TableNew(tdef)
RTableNew(tdef) ==
    /\ kv.err = ""
    /\ LET r == TableNew(kv, tdef)
       IN /\ kv' = r.db
          /\ ref' = IF r.db.err = "" /\ r.err = "" THEN Append(ref, r.tdef) ELSE ref
          /\ obs' = [op |-> "TableNew", err |-> r.err]
    /\ last' = "TableNew"
    /\ UNCHANGED <<tree, lh>>

TblNext == \E tdef \in TableDefs : RTableNew(tdef)

SpecTbl == TblInit /\ [][TblNext]_vars

(***************************************************************************)
(* Harness R with a db.kv.Update that may fail: TableNew calls of which    *)
(* some fail in their first or in their second dbUpdate.  obs keeps the    *)
(* prefixes handed out so far and the next_prefix stored before the call.  *)
(***************************************************************************)
\* the failing updates of one run
MaxTblFaults == 2
\* next_prefix as stored, 0 when there is no such row
StoredNext(db) ==
    LET row(m) == IF m.ok THEN Uint32LE(m.vals[2].Str) ELSE 0
    IN row(dbGet(db, TdefMeta, <<ValBytes(NextPrefixKey)>>))

FailInit == /\ tree = NewC
            /\ ref = <<>>
            /\ lh = NewL
            /\ kv = NewDB
            /\ obs = [op |-> "none", err |-> "", handed |-> FALSE, prefix |-> 0,
                      given |-> {}, before |-> {}, prev |-> 0, nfault |-> 0]
            /\ last = "init"

\* r.db.TableNew(tdef) with a fresh definition
FTableNew(tdef, f) ==
    LET called(r) ==
            /\ kv' = r.db
            /\ ref' = IF r.db.err = "" /\ r.err = "" THEN Append(ref, r.tdef) ELSE ref
            /\ obs' = [op |-> "TableNew", err |-> r.err, handed |-> r.handed,
                       prefix |-> r.tdef.Prefix,
                       given |-> IF r.handed THEN obs.given \cup {r.tdef.Prefix} ELSE obs.given,
                       before |-> obs.given, prev |-> StoredNext(kv),
                       nfault |-> obs.nfault + (IF f = 0 THEN 0 ELSE 1)]
    IN /\ kv.err = ""
       /\ f # 0 => obs.nfault < MaxTblFaults
       /\ called(TableNewF(kv, tdef, f))
       /\ last' = "TableNew"
       /\ UNCHANGED <<tree, lh>>

FailNext == \E tdef \in TableDefs, f \in 0..2 : FTableNew(tdef, f)

SpecFail == FailInit /\ [][FailNext]_vars

(***************************************************************************)
(* KV.Open over files of any size and any meta page.                       *)
(***************************************************************************)
\* the largest page number in the fields of the meta pages read by Open
MaxMetaPtr == 4
\* the bytes in the last page of a file whose size is no multiple of the page size
OddBytes == 100
\* sizes of 1 to 4 whole pages, of less than a page, and of 2 and 4 pages and a rest
FileSizes == {n * BTreePageSize : n \in 1..MaxMetaPtr}
             \cup {OddBytes, 2 * BTreePageSize + OddBytes, MaxMetaPtr * BTreePageSize + OddBytes}
\* meta pages with the signature of this format and of its predecessor
MetaPages == [sig : {DbSig, "BuildYourOwnDB05"}, root : 0..MaxMetaPtr,
              flushed : 0..(MaxMetaPtr + 1), headPage : 0..MaxMetaPtr, headSeq : {0},
              tailPage : 0..MaxMetaPtr, tailSeq : {0}]

OpenInit == /\ tree = NewC
            /\ ref = <<>>
            /\ lh = NewL
            /\ kv = NewKV(<<>>, <<>>)
            /\ obs \in [op : {"file"}, size : FileSizes, meta : MetaPages, ret : {""}]
            /\ last = "init"

\* db.Open() on the file
OOpen ==
    /\ last = "init"
    /\ LET r == OpenFile((0 :> obs.meta), <<>>, obs.size)
       IN /\ kv' = r.s
          /\ obs' = [obs EXCEPT !.op = "open", !.ret = r.ret]
    /\ last' = "open"
    /\ UNCHANGED <<tree, ref, lh>>

OpenNext == OOpen

SpecOpen == OpenInit /\ [][OpenNext]_vars

(***************************************************************************)
(* Harness L (src/core/free_list_test.go): push, pop, SetMaxSeq.           *)
(***************************************************************************)
FLInit == /\ tree = NewC
          /\ ref = <<>>
          /\ lh = NewL
          /\ kv = NewKV(<<>>, <<>>)
          /\ obs = [op |-> "none", fresh |-> {}]
          /\ last = "init"

\* L.push of the next id of the tests
LPush ==
    LET ptr == PushBase + Len(lh.added)
        pushed(st) == [st EXCEPT !.added = IF st.err = "" THEN Append(@, ptr) ELSE @]
    IN /\ lh.err = ""
       /\ Len(lh.added) < MaxPush
       /\ lh' = IF ptr \in DOMAIN lh.pages THEN SetErr(lh, "push: assert pages[ptr] == nil")
                ELSE pushed(PushTail([lh EXCEPT !.pages = (ptr :> ZeroPage) @@ lh.pages], ptr))
       /\ obs' = [op |-> "push", fresh |-> obs.fresh \cup {ptr}]
       /\ last' = "push"
       /\ UNCHANGED <<tree, ref, kv>>

\* L.pop; obs keeps the list it started from, the slot at headSeq and the id returned
LPop ==
    LET popped(r) ==
            /\ lh' = [r.s EXCEPT !.removed = IF r.s.err = "" /\ r.ptr # 0
                                              THEN Append(@, r.ptr) ELSE @]
            /\ obs' = [op |-> "pop", fresh |-> obs.fresh, ptr |-> r.ptr, pre |-> lh.fl,
                       slot |-> AsLNode(lh.pages[lh.fl.headPage]).p[seq2idx(lh.fl.headSeq)],
                       same |-> r.s = lh]
    IN /\ lh.err = ""
       /\ popped(PopHead(lh))
       /\ last' = "pop"
       /\ UNCHANGED <<tree, ref, kv>>

\* l.free.SetMaxSeq()
LSetMaxSeq ==
    /\ lh.err = ""
    /\ lh' = SetMaxSeq(lh)
    /\ obs' = [op |-> "setmax", fresh |-> {}]
    /\ last' = "setmax"
    /\ UNCHANGED <<tree, ref, kv>>

FLNext == LPush \/ LPop \/ LSetMaxSeq

SpecFL == FLInit /\ [][FLNext]_vars

(***************************************************************************)
(* Harness L, TestFreeListEmptyFullEmpty and TestFreeListEmptyFullEmpty2:  *)
(* N pushes, then SetMaxSeq and pop in turn until pop returns 0.           *)
(***************************************************************************)
\* the largest N of a run
MaxDrain == 12

DrainInit == /\ tree = NewC
             /\ ref = <<>>
             /\ lh = NewL
             /\ kv = NewKV(<<>>, <<>>)
             /\ obs \in {[op |-> "none", pc |-> "fill", n |-> n, reuse |-> b, ptr |-> 0] :
                            n \in 0..MaxDrain, b \in BOOLEAN}
             /\ last = "init"

\* l.push(10000 + i), in the second test followed by l.free.SetMaxSeq()
DPush ==
    LET ptr == PushBase + Len(lh.added)
        pushed(st) == [st EXCEPT !.added = IF st.err = "" THEN Append(@, ptr) ELSE @]
        reuse(st) == IF obs.reuse /\ st.err = "" THEN SetMaxSeq(st) ELSE st
    IN /\ lh.err = ""
       /\ obs.pc = "fill"
       /\ Len(lh.added) < obs.n
       /\ lh' = reuse(pushed(PushTail([lh EXCEPT !.pages = (ptr :> ZeroPage) @@ lh.pages], ptr)))
       /\ obs' = [obs EXCEPT !.op = "push"]
       /\ last' = "push"
       /\ UNCHANGED <<tree, ref, kv>>

\* the end of the pushes; the first test asserts l.pop() == 0 and calls SetMaxSeq
DFilled ==
    LET first(r) == IF r.s.err = "" /\ r.ptr # 0 THEN SetErr(r.s, "assert l.pop() == 0")
                    ELSE IF r.s.err = "" THEN SetMaxSeq(r.s) ELSE r.s
    IN /\ lh.err = ""
       /\ obs.pc = "fill"
       /\ Len(lh.added) = obs.n
       /\ lh' = IF obs.reuse THEN lh ELSE first(PopHead(lh))
       /\ obs' = [obs EXCEPT !.op = "filled", !.pc = "pop"]
       /\ last' = "filled"
       /\ UNCHANGED <<tree, ref, kv>>

\* ptr = l.pop()
DPop ==
    LET popped(r) ==
            /\ lh' = [r.s EXCEPT !.removed = IF r.s.err = "" /\ r.ptr # 0
                                              THEN Append(@, r.ptr) ELSE @]
            /\ obs' = [obs EXCEPT !.op = "pop", !.ptr = r.ptr,
                                  !.pc = IF r.ptr = 0 THEN "done" ELSE "setmax"]
    IN /\ lh.err = ""
       /\ obs.pc = "pop"
       /\ popped(PopHead(lh))
       /\ last' = "pop"
       /\ UNCHANGED <<tree, ref, kv>>

\* for ptr != 0 { l.free.SetMaxSeq() ...
DSetMaxSeq ==
    /\ lh.err = ""
    /\ obs.pc = "setmax"
    /\ lh' = SetMaxSeq(lh)
    /\ obs' = [obs EXCEPT !.op = "setmax", !.pc = "pop"]
    /\ last' = "setmax"
    /\ UNCHANGED <<tree, ref, kv>>

DrainNext == DPush \/ DFilled \/ DPop \/ DSetMaxSeq

SpecDrain == DrainInit /\ [][DrainNext]_vars
\* a test that has started keeps running
LiveDrain == SpecDrain /\ WF_vars(DrainNext)

(***************************************************************************)
(* KV over a database file (src/btree/kv.go; harness D of the KV tests,    *)
(* src/unnamed/part_000).  The file is an input: empty, or a database that *)
(* earlier runs committed.                                                 *)
(***************************************************************************)
\* Set and Del calls of one run, system calls that fail, crashes
MaxTx == 3
MaxFault == 3
MaxCrash == 1

DiskOf(pages) == [i \in 0..(Len(pages) - 1) |-> pages[i + 1]]
SlotsOf(q) == [i \in 0..(FreeListCap - 1) |-> IF i < Len(q) THEN q[i + 1] ELSE 0]
MetaPage(root, flushed, headPage, headSeq, tailPage, tailSeq) ==
    [sig |-> DbSig, root |-> root, flushed |-> flushed, headPage |-> headPage,
     headSeq |-> headSeq, tailPage |-> tailPage, tailSeq |-> tailSeq]
LeafOf(e) == MkNode(BNodeLeaf, <<Entry(0, 0, 0)>> \o e)

\* the file after the first committed Set on a new file: meta, list node, root leaf
Image3 == DiskOf(<<MetaPage(2, 3, 1, 0, 1, 0),
                   [next |-> 0, p |-> SlotsOf(<<>>)],
                   LeafOf(<<Entry(2, 2, 0)>>)>>)
\* a file of four pages with one free page: page 2 is free, page 3 the root
Image4 == DiskOf(<<MetaPage(3, 4, 1, 0, 1, 1),
                   [next |-> 0, p |-> SlotsOf(<<2>>)],
                   LeafOf(<<>>),
                   LeafOf(<<Entry(2, 1, 0)>>)>>)
\* a file of eight pages: the head list node (page 1) is full and holds the
\* free pages 2..5, which keep earlier versions of the root leaf; page 6 is
\* the empty tail list node and page 7 the root
Image8 == DiskOf(<<MetaPage(7, 8, 1, 0, 6, 4),
                   [next |-> 6, p |-> SlotsOf(<<2, 3, 4, 5>>)],
                   LeafOf(<<>>),
                   LeafOf(<<Entry(2, 2, 0)>>),
                   LeafOf(<<Entry(3, 2, 0)>>),
                   LeafOf(<<Entry(2, 2, 0), Entry(3, 2, 0)>>),
                   [next |-> 0, p |-> SlotsOf(<<>>)],
                   LeafOf(<<Entry(2, 1, 0)>>)>>)
Images == {<<>>, Image3, Image4, Image8}

\* the database a file holds: its meta page loaded, as Open is specified to
Mounted(disk) ==
    IF DOMAIN disk = {} THEN [NewKV(disk, <<>>) EXCEPT !.open = TRUE, !.flushed = 2,
                                                       !.fl.headPage = 1, !.fl.tailPage = 1]
    ELSE SetMaxSeq(loadMeta([NewKV(disk, <<>>) EXCEPT !.open = TRUE], disk[0]))

NewObs(disk) ==
    [op |-> "none", ret |-> "", at |-> "", key |-> 0, val |-> 0,
     pre |-> GetMap(Mounted(disk)), snap |-> saveMeta(Mounted(disk)),
     exp |-> {GetMap(Mounted(disk))},
     reach |-> {}, alloc |-> {}, freed |-> {}, written |-> {},
     clean |-> TRUE, crashed |-> FALSE, ntx |-> 0, nfault |-> 0, ncrash |-> 0]

KVInit == /\ tree = NewC
          /\ ref = <<>>
          /\ lh = NewL
          /\ \E disk \in Images : kv = NewKV(disk, <<>>) /\ obs = NewObs(disk)
          /\ last = "init"

SeqSet(q) == {q[i] : i \in 1..Len(q)}
\* the pages of the tree the durable meta page points to
DurableTree(disk) == SeqSet(TreePages(Mounted(disk), Mounted(disk).root, MaxTx + 2))

\* what a crash may leave: the last committed state, after a failed commit
\* also the state it tried to reach
ExpBase == IF last = "open" THEN {GetMap(kv)} ELSE obs.exp

\* the commit of a Set or Del whose tree update left the store s1
Commit(op, key, val, s1, fault) ==
    LET done(r) ==
            /\ kv' = r.s
            /\ obs' = [obs EXCEPT !.op = op, !.ret = r.ret, !.at = fault.at,
                                  !.key = key, !.val = val,
                                  !.pre = GetMap(kv), !.snap = saveMeta(kv),
                                  !.exp = IF r.ret = "ok" THEN {GetMap(r.s)}
                                          ELSE ExpBase \cup {GetMap(s1)},
                                  !.reach = DurableTree(kv.disk),
                                  !.alloc = s1.alloc, !.freed = s1.freed,
                                  !.written = r.s.written,
                                  !.clean = FALSE,
                                  !.ntx = @ + 1,
                                  !.nfault = IF fault.at = "none" THEN @ ELSE @ + 1]
    IN /\ fault.at # "none" => obs.nfault < MaxFault
       /\ done(updateOrRevert(s1, saveMeta(kv), fault))

\* an operation that ended the process or returned before the commit
NoCommit(op, key, val, s1, ret) ==
    /\ kv' = s1
    /\ obs' = [obs EXCEPT !.op = op, !.ret = ret, !.at = "", !.key = key, !.val = val,
                          !.pre = GetMap(kv), !.snap = saveMeta(kv),
                          !.exp = ExpBase,
                          !.reach = DurableTree(kv.disk),
                          !.alloc = s1.alloc, !.freed = s1.freed, !.written = {},
                          !.clean = FALSE, !.ntx = @ + 1]

\* KV.Set
KVSet(key, val) ==
    LET mutated(s1) == IF s1.err # "" THEN NoCommit("set", key, val, s1, "panic")
                       ELSE \E fault \in FaultsOf(s1) : Commit("set", key, val, s1, fault)
    IN /\ kv.open /\ kv.err = "" /\ obs.ntx < MaxTx
       /\ mutated(BTreeUpsert([kv EXCEPT !.alloc = {}, !.written = {}], key, val).s)
       /\ last' = "set"
       /\ UNCHANGED <<tree, ref, lh>>

\* KV.Del
KVDel(key) ==
    LET mutated(r) == IF r.s.err # "" THEN NoCommit("del", key, 0, r.s, "panic")
                      ELSE IF ~r.ret THEN NoCommit("del", key, 0, r.s, "notfound")
                      ELSE \E fault \in FaultsOf(r.s) : Commit("del", key, 0, r.s, fault)
    IN /\ kv.open /\ kv.err = "" /\ obs.ntx < MaxTx
       /\ mutated(BTreeDelete([kv EXCEPT !.alloc = {}, !.written = {}], key))
       /\ last' = "del"
       /\ UNCHANGED <<tree, ref, lh>>

\* KV.Close (D.reopen discards the KV struct)
KVClose ==
    /\ kv.open /\ kv.err = ""
    /\ kv' = NewKV(kv.disk, kv.cache)
    /\ obs' = [obs EXCEPT !.op = "close", !.ret = "", !.pre = GetMap(kv),
                          !.clean = ~kv.failed /\ kv.updates = <<>>, !.crashed = FALSE]
    /\ last' = "close"
    /\ UNCHANGED <<tree, ref, lh>>

\* KV.Open by a new KV struct, after Close, a crash or the end of the process;
\* the writes still pending when a process ends are settled by Crash
KVOpen ==
    LET opened(r) ==
            /\ kv' = r.s
            /\ obs' = [obs EXCEPT !.op = "open", !.ret = r.ret,
                                  !.clean = obs.clean /\ kv.err = ""]
    IN /\ ~kv.open \/ kv.err # ""
       /\ last # "open"
       /\ kv.cache = <<>>
       /\ opened(Open(kv.disk, kv.cache))
       /\ last' = "open"
       /\ UNCHANGED <<tree, ref, lh>>

\* the machine stops: of the writes not yet synced, those of the pages W survive
Crash ==
    /\ obs.ncrash < MaxCrash
    /\ last \in {"set", "del"}
    /\ \E W \in SUBSET DOMAIN kv.cache :
          kv' = NewKV([i \in (DOMAIN kv.disk) \cup W |->
                          IF i \in W THEN kv.cache[i] ELSE kv.disk[i]], <<>>)
    /\ obs' = [obs EXCEPT !.op = "crash", !.ret = "", !.crashed = TRUE, !.clean = FALSE,
                          !.ncrash = @ + 1]
    /\ last' = "crash"
    /\ UNCHANGED <<tree, ref, lh>>

KVNext == \/ \E k \in KVKeys, v \in KVVals : KVSet(k, v)
          \/ \E k \in KVKeys : KVDel(k)
          \/ KVClose
          \/ KVOpen
          \/ Crash

SpecKV == KVInit /\ [][KVNext]_vars

(***************************************************************************)
(* The free list under harness L and the free list of the KV: a run is one *)
(* of harness L or one of harness D.                                       *)
(***************************************************************************)
SeqInit == FLInit \/ KVInit

SeqNext == \/ "fresh" \in DOMAIN obs /\ FLNext
           \/ "fresh" \notin DOMAIN obs /\ KVNext

SpecSeq == SeqInit /\ [][SeqNext]_vars

(***************************************************************************)
(* TestKVFileSize (src/unnamed/part_000): a key set is written twice, then *)
(* overwritten, deleted and added back, with values of one size.           *)
(***************************************************************************)
\* the phases: fill(0), fill(1), fill(2), remove everything, fill(3)
LastPhase == 5
\* the keys of the key sets: keys of 1000 bytes
SizeKeys == {1, 3, 4, 5}
\* the value of a phase: values 2 and 3 are one byte long
PhaseVal(p) == 2 + (p % 2)

SizeInit == /\ tree = NewC
            /\ ref = <<>>
            /\ lh = NewL
            /\ \E disk \in Images, K \in (SUBSET SizeKeys) \ {{}} :
                  /\ kv = Open(disk, <<>>).s
                  /\ obs = [op |-> "open", phase |-> 1, keys |-> K, todo |-> K, size |-> 0]
            /\ last = "init"

\* the next call of the test, for a key that the phase has not yet handled
ZStep(key) ==
    LET after(s1) == IF s1.err # "" THEN s1
                     ELSE updateOrRevert(s1, saveMeta(kv), [at |-> "none", w |-> {}]).s
        call(p) == IF p = 4 THEN BTreeDelete([kv EXCEPT !.alloc = {}, !.written = {}], key).s
                   ELSE BTreeUpsert([kv EXCEPT !.alloc = {}, !.written = {}], key, PhaseVal(p)).s
        next(s2) ==
            /\ kv' = s2
            /\ obs' = IF obs.todo = {key} /\ s2.err = ""
                      THEN [obs EXCEPT !.op = "call", !.phase = @ + 1, !.todo = obs.keys,
                                       !.size = IF obs.phase = 2 THEN s2.flushed ELSE @]
                      ELSE [obs EXCEPT !.op = "call", !.todo = @ \ {key}]
    IN /\ kv.open /\ kv.err = ""
       /\ obs.phase <= LastPhase
       /\ key \in obs.todo
       /\ next(after(call(obs.phase)))
       /\ last' = "call"
       /\ UNCHANGED <<tree, ref, lh>>

SizeNext == \E k \in SizeKeys : ZStep(k)

SpecSize == SizeInit /\ [][SizeNext]_vars

(***************************************************************************)
(* A commit, one system call at a time: Set and Del mutate the tree in     *)
(* memory, then updateOrRevert and updateFile issue their calls in order,  *)
(* and each call succeeds or fails.                                        *)
(***************************************************************************)
\* the attempts of a run and the failing calls among them
MaxCommits == 3
MaxFailures == 3

\* updateOrRevert: the call it starts with
firstStep_NoRewrite(s) == "pages"
firstStep(s) == IF s.failed THEN "rewrite" ELSE "pages"

\* updateFile: the call that follows the call pc, "revert" after an error
updateFileStep_MetaFirst(pc, ok) ==
    IF ~ok THEN "revert"
    ELSE CASE pc = "pages" -> "meta"
           [] pc = "meta" -> "sync1"
           [] pc = "sync1" -> "sync2"
           [] pc = "sync2" -> "maxseq"
           [] OTHER -> "return"
updateFileStep(pc, ok) ==
    IF ~ok THEN "revert"
    ELSE CASE pc = "pages" -> "sync1"
           [] pc = "sync1" -> "meta"
           [] pc = "meta" -> "sync2"
           [] pc = "sync2" -> "maxseq"
           [] OTHER -> "return"

\* updateOrRevert: the call that follows the call pc, "return" where it returns
updateOrRevertStep(pc, ok) ==
    IF pc = "rewrite" THEN (IF ok THEN "resync" ELSE "return")
    ELSE IF pc = "resync" THEN (IF ok THEN "pages" ELSE "return")
    ELSE updateFileStep(pc, ok)

\* updateOrRevert after updateFile returned an error
revertTo(s, meta) ==
    [loadMeta([s EXCEPT !.failed = TRUE], meta)
        EXCEPT !.nappend = 0, !.updates = <<>>, !.freed = {}]

\* what the call pc does when it succeeds
stepDone(s, pc, meta) ==
    CASE pc = "rewrite" -> Pwrite(s, 0, meta)
      [] pc = "resync" -> [Fsync(s) EXCEPT !.failed = FALSE]
      [] pc = "pages" -> writePages(s, [at |-> "none", w |-> {}]).s
      [] pc = "sync1" -> Fsync(s)
      [] pc = "meta" -> updateRoot(s)
      [] pc = "sync2" -> Fsync(s)
      [] OTHER -> [SetMaxSeq(s) EXCEPT !.freed = {}]

\* what the call pc leaves when it fails, a page write after the pages W
stepFailed(s, pc, W) ==
    IF pc = "pages" THEN writePages(s, [at |-> "page", w |-> W]).s ELSE s

\* the staged pages that are durable
StagedDurable(s, staged) ==
    \A p \in DOMAIN staged : p \in DOMAIN s.disk /\ s.disk[p] = staged[p]

CommitIdle ==
    [op |-> "none", pc |-> "idle", ret |-> "", meta |-> saveMeta(NewKV(<<>>, <<>>)),
     staged |-> <<>>, mutated |-> NewKV(<<>>, <<>>), wasFailed |-> FALSE, log |-> <<>>,
     ntx |-> 0, nfault |-> 0, streak |-> 0]

CommitInit == /\ tree = NewC
              /\ ref = <<>>
              /\ lh = NewL
              /\ \E disk \in Images : kv = Open(disk, <<>>).s
              /\ obs = CommitIdle
              /\ last = "init"

\* Set and Del up to the call of updateOrRevert
CoBegin(op, s1, found) ==
    /\ kv' = s1
    /\ obs' = IF s1.err # "" THEN [obs EXCEPT !.op = op, !.pc = "idle", !.ret = "panic",
                                              !.log = <<>>, !.ntx = @ + 1]
              ELSE IF ~found THEN [obs EXCEPT !.op = op, !.pc = "idle", !.ret = "notfound",
                                              !.log = <<>>, !.ntx = @ + 1]
              ELSE [obs EXCEPT !.op = op, !.pc = firstStep(s1), !.ret = "",
                               !.meta = saveMeta(kv), !.staged = s1.updates, !.mutated = s1,
                               !.wasFailed = kv.failed, !.log = <<>>, !.ntx = @ + 1]

CoSet(key, val) ==
    /\ kv.open /\ kv.err = "" /\ obs.pc = "idle" /\ obs.ntx < MaxCommits
    /\ CoBegin("set", BTreeUpsert([kv EXCEPT !.alloc = {}, !.written = {}], key, val).s, TRUE)
    /\ last' = "set"
    /\ UNCHANGED <<tree, ref, lh>>

CoDel(key) ==
    LET deleted(r) == CoBegin("del", r.s, r.ret)
    IN /\ kv.open /\ kv.err = "" /\ obs.pc = "idle" /\ obs.ntx < MaxCommits
       /\ deleted(BTreeDelete([kv EXCEPT !.alloc = {}, !.written = {}], key))
       /\ last' = "del"
       /\ UNCHANGED <<tree, ref, lh>>

\* the entry of the log for the call obs.pc that left the store s2
LogEntry(ok, s2) ==
    [step |-> obs.pc, ok |-> ok, page0 |-> IF 0 \in DOMAIN s2.cache THEN s2.cache[0] ELSE obs.meta,
     written |-> s2.written, durable |-> StagedDurable(kv, obs.staged), failed |-> s2.failed]

\* the store and the log when the call obs.pc is over and control is at `to`
CoMove(ok, s2, to) ==
    /\ kv' = IF to = "revert" THEN Settle(revertTo(s2, obs.meta))
             ELSE IF to = "return" THEN Settle(s2)
             ELSE s2
    /\ obs' = [obs EXCEPT !.pc = IF to \in {"revert", "return"} THEN "idle" ELSE to,
                          !.ret = IF to \in {"revert", "return"}
                                  THEN (IF ok THEN "ok" ELSE "err") ELSE "",
                          !.log = Append(@, LogEntry(ok, s2)),
                          !.nfault = IF ok THEN @ ELSE @ + 1,
                          !.streak = IF to \notin {"revert", "return"} THEN @
                                     ELSE IF ok THEN 0 ELSE @ + 1]

\* the call at obs.pc succeeds
CoStepOk ==
    /\ obs.pc # "idle"
    /\ CoMove(TRUE, stepDone(kv, obs.pc, obs.meta), updateOrRevertStep(obs.pc, TRUE))
    /\ last' = "ok"
    /\ UNCHANGED <<tree, ref, lh>>

\* the call at obs.pc fails, a page write after the pages W were written
CoStepFail ==
    /\ obs.pc \notin {"idle", "maxseq"}
    /\ obs.nfault < MaxFailures
    /\ \E W \in SUBSET DOMAIN kv.updates :
          /\ W = {} \/ (obs.pc = "pages" /\ W # DOMAIN kv.updates)
          /\ CoMove(FALSE, stepFailed(kv, obs.pc, W), updateOrRevertStep(obs.pc, FALSE))
    /\ last' = "fail"
    /\ UNCHANGED <<tree, ref, lh>>

CommitNext == \/ \E k \in KVKeys, v \in KVVals : CoSet(k, v)
              \/ \E k \in KVKeys : CoDel(k)
              \/ CoStepOk
              \/ CoStepFail

SpecCommit == CommitInit /\ [][CommitNext]_vars

(***************************************************************************)
(* pageAppend on the stores that committed Sets leave.                     *)
(***************************************************************************)
\* the Sets before the call
MaxSets == 2
\* the nodes handed to pageAppend: leaves of one page
AppendNodes == {LeafOf(<<>>)} \cup {LeafOf(<<Entry(k, v, 0)>>) : k \in KVKeys, v \in KVVals}

AppendInit == /\ tree = NewC
              /\ ref = <<>>
              /\ lh = NewL
              /\ \E disk \in Images : kv = Open(disk, <<>>).s
              /\ obs = [op |-> "open", pre |-> NewKV(<<>>, <<>>), node |-> NoNode, ptr |-> 0, n |-> 0]
              /\ last = "init"

\* KV.Set whose system calls all succeed
ASet(key, val) ==
    LET after(s1) == IF s1.err # "" THEN s1
                     ELSE updateOrRevert(s1, saveMeta(kv), [at |-> "none", w |-> {}]).s
    IN /\ kv.open /\ kv.err = "" /\ obs.n < MaxSets
       /\ kv' = after(BTreeUpsert([kv EXCEPT !.alloc = {}, !.written = {}], key, val).s)
       /\ obs' = [obs EXCEPT !.op = "set", !.pre = kv, !.n = @ + 1]
       /\ last' = "set"
       /\ UNCHANGED <<tree, ref, lh>>

\* db.pageAppend(node)
APageAppend(node) ==
    LET appended(r) ==
            /\ kv' = r.s
            /\ obs' = [obs EXCEPT !.op = "pageAppend", !.pre = kv, !.node = node, !.ptr = r.ptr]
    IN /\ kv.open /\ kv.err = "" /\ obs.op # "pageAppend"
       /\ appended(pageAppend(kv, node))
       /\ last' = "pageAppend"
       /\ UNCHANGED <<tree, ref, lh>>

AppendNext == \/ \E k \in KVKeys, v \in KVVals : ASet(k, v)
              \/ \E node \in AppendNodes : APageAppend(node)

SpecAppend == AppendInit /\ [][AppendNext]_vars

(***************************************************************************)
(* nodeSplit3 on the nodes that treeInsert hands to it: a leaf of one page *)
(* after leafInsert or leafUpdate, and an internal node of one page after  *)
(* nodeReplaceKidN put up to three kids in the place of one.               *)
(***************************************************************************)
\* the leaf with the keys k for which g[k] # 0, key k with value g[k], after
\* the dummy entry when dummy is set
LeafWith(g, dummy) ==
    LET K == {k \in DOMAIN g : g[k] # 0}
        ks == SortedSeq(K)
    IN MkNode(BNodeLeaf, (IF dummy THEN <<Entry(0, 0, 0)>> ELSE <<>>)
                         \o [i \in 1..Len(ks) |-> Entry(ks[i], g[ks[i]], 0)])
OnePageLeaves ==
    {n \in {LeafWith(g, d) : g \in [Keys -> 0..NumVals], d \in BOOLEAN} :
        nKeys(n) >= 1 /\ nBytes(n) <= BTreePageSize}

\* treeInsert on a leaf that holds the place of the key: the new node
LeafProducts ==
    LET made(n, k, v, idx) ==
            IF k = getKey(n, idx) THEN leafUpdate(n, idx, k, v)
            ELSE leafInsert(n, idx + 1, k, v)
    IN {made(c[1], c[2], c[3], nodeLookupLE(c[1], c[2])) :
           c \in {d \in OnePageLeaves \X Keys \X Vals : getKey(d[1], 0) <= d[2]}}

\* the internal node with the keys K, kid i at page i
InnerWith(K) ==
    LET ks == SortedSeq(K) IN MkNode(BNodeNode, [i \in 1..Len(ks) |-> Entry(ks[i], 0, i)])
\* an internal node of one page in which one kid became one, two or three
InnerProducts ==
    {n \in {InnerWith(K) : K \in (SUBSET (0..NumKeys)) \ {{}}} :
        \E D \in SUBSET (2..nKeys(n)) :
            /\ Cardinality(D) <= 2
            /\ \A i \in D : i + 1 \in D \/ i - 1 \in D \/ Cardinality(D) = 1
            /\ nBytes(MkNode(BNodeNode, [j \in 1..(nKeys(n) - Cardinality(D)) |->
                   n.e[CHOOSE x \in (1..nKeys(n)) \ D :
                          Cardinality({y \in (1..nKeys(n)) \ D : y < x}) = j - 1]]))
                   <= BTreePageSize}

SplitInputs == LeafProducts \cup InnerProducts

SplitInit == /\ tree = NewC
             /\ ref = <<>>
             /\ lh = NewL
             /\ kv = NewKV(<<>>, <<>>)
             /\ obs \in {[op |-> "input", in |-> n, err |-> "", nodes |-> <<>>] : n \in SplitInputs}
             /\ last = "init"

\* nSplit, split := nodeSplit3(kNode)
Split3 ==
    LET got(r) == obs' = [obs EXCEPT !.op = "nodeSplit3", !.err = r.err, !.nodes = r.nodes]
    IN /\ last = "init"
       /\ got(nodeSplit3(obs.in))
       /\ last' = "nodeSplit3"
       /\ UNCHANGED <<tree, ref, lh, kv>>

SplitNext == Split3

SpecSplit == SplitInit /\ [][SplitNext]_vars

(***************************************************************************)
(* nodeSplit2, one evaluation of a loop condition at a time, on the nodes  *)
(* nodeSplit3 hands to it: an input of more than one page, and the left    *)
(* node of a first split that is still of more than one page.              *)
(***************************************************************************)
Oversized == {n \in SplitInputs : nBytes(n) > BTreePageSize}
Split2Inputs ==
    Oversized \cup {m \in {nodeSplit2(n).left : n \in Oversized} : nBytes(m) > BTreePageSize}

Split2Init == /\ tree = NewC
              /\ ref = <<>>
              /\ lh = NewL
              /\ kv = NewKV(<<>>, <<>>)
              /\ obs \in {[pc |-> "start", in |-> n, nLeft |-> 0, err |-> "", moved |-> 0] :
                             n \in Split2Inputs}
              /\ last = "init"

\* util.Assert(old.nKeys() >= 2); nLeft := old.nKeys() / 2
S2Begin ==
    /\ obs.pc = "start"
    /\ obs' = IF nKeys(obs.in) < 2
              THEN [obs EXCEPT !.pc = "done", !.err = "nodeSplit2: assert nKeys >= 2"]
              ELSE [obs EXCEPT !.pc = "left", !.nLeft = nKeys(obs.in) \div 2]
    /\ last' = "begin"
    /\ UNCHANGED <<tree, ref, lh, kv>>

\* for leftBytes() > BTreePageSize { nLeft-- }
S2Shrink ==
    /\ obs.pc = "left"
    /\ leftBytes(obs.in, obs.nLeft) > BTreePageSize
    /\ obs' = [obs EXCEPT !.nLeft = @ - 1, !.moved = @ + 1]
    /\ last' = "shrink"
    /\ UNCHANGED <<tree, ref, lh, kv>>

\* the first loop ends; util.Assert(nLeft >= 1)
S2LeftFits ==
    /\ obs.pc = "left"
    /\ ~(leftBytes(obs.in, obs.nLeft) > BTreePageSize)
    /\ obs' = IF obs.nLeft >= 1 THEN [obs EXCEPT !.pc = "right"]
              ELSE [obs EXCEPT !.pc = "done", !.err = "nodeSplit2: assert nLeft >= 1"]
    /\ last' = "leftfits"
    /\ UNCHANGED <<tree, ref, lh, kv>>

\* for rightBytes() > BTreePageSize { nLeft++ }
S2Grow ==
    /\ obs.pc = "right"
    /\ rightBytes(obs.in, obs.nLeft) > BTreePageSize
    /\ obs' = [obs EXCEPT !.nLeft = @ + 1, !.moved = @ + 1]
    /\ last' = "grow"
    /\ UNCHANGED <<tree, ref, lh, kv>>

\* the second loop ends; util.Assert(nLeft < old.nKeys()), the two nodes are
\* filled, util.Assert(right.nBytes() <= BTreePageSize)
S2RightFits ==
    /\ obs.pc = "right"
    /\ ~(rightBytes(obs.in, obs.nLeft) > BTreePageSize)
    /\ obs' = IF ~(obs.nLeft < nKeys(obs.in))
              THEN [obs EXCEPT !.pc = "done", !.err = "nodeSplit2: assert nLeft < nKeys"]
              ELSE IF nBytes(MkNode(bType(obs.in),
                                    Range(obs.in, obs.nLeft, nKeys(obs.in) - obs.nLeft)))
                      > BTreePageSize
              THEN [obs EXCEPT !.pc = "done",
                               !.err = "nodeSplit2: assert right.nBytes <= BTreePageSize"]
              ELSE [obs EXCEPT !.pc = "done"]
    /\ last' = "rightfits"
    /\ UNCHANGED <<tree, ref, lh, kv>>

Split2Next == \/ S2Begin
              \/ S2Shrink
              \/ S2LeftFits
              \/ S2Grow
              \/ S2RightFits

SpecSplit2 == Split2Init /\ [][Split2Next]_vars
\* the call runs on: a goroutine that is in nodeSplit2 takes its next step
LiveSplit2 == SpecSplit2 /\ WF_vars(Split2Next)

(***************************************************************************)
(* Harness C with the tree each call started from: trees of one and two    *)
(* levels, in which nodeDelete runs on the root.                           *)
(***************************************************************************)
NumMergeKeys == 5
MergeKeys == 1..NumMergeKeys

MergeInit == /\ tree = NewC
             /\ ref = <<>>
             /\ lh = NewL
             /\ kv = NewKV(<<>>, <<>>)
             /\ obs = [op |-> "none", pre |-> NewC, key |-> 0, ret |-> FALSE]
             /\ last = "init"

\* C.add
MAdd(key, val) ==
    LET added(r) ==
            /\ tree' = Canon(r.s)
            /\ ref' = IF r.s.err = "" THEN MapSet(ref, key, val) ELSE ref
            /\ obs' = [op |-> "add", pre |-> tree, key |-> key, ret |-> r.ret]
    IN /\ tree.err = ""
       /\ added(BTreeUpsert(tree, key, val))
       /\ last' = "add"
       /\ UNCHANGED <<lh, kv>>

\* C.del
MDelete(key) ==
    LET deleted(r) ==
            /\ tree' = Canon(r.s)
            /\ ref' = MapDel(ref, key)
            /\ obs' = [op |-> "del", pre |-> tree, key |-> key, ret |-> r.ret]
    IN /\ tree.err = ""
       /\ deleted(BTreeDelete(tree, key))
       /\ last' = "del"
       /\ UNCHANGED <<lh, kv>>

MergeNext == \/ \E k \in MergeKeys, v \in Vals : MAdd(k, v)
             \/ \E k \in MergeKeys : MDelete(k)

SpecMerge == MergeInit /\ [][MergeNext]_vars

(***************************************************************************)
(* Harness C with keys of 1000 bytes and values of 3000 bytes only, enough  *)
(* of them for a tree of three levels in which an internal node is left    *)
(* with a single leaf.                                                     *)
(***************************************************************************)
NumShrinkKeys == 9
ShrinkKeys == {1} \cup (3..NumShrinkKeys)

ShrinkNext == \/ \E k \in ShrinkKeys : MAdd(k, 1)
              \/ \E k \in ShrinkKeys : MDelete(k)

SpecShrink == MergeInit /\ [][ShrinkNext]_vars

(***************************************************************************)
(* The prototype tree of package types (src/types/btree.go): nodeDelete on *)
(* an internal node over two or three leaves.  BNode of package types is   *)
(* taken to have the layout and the node functions of src/core/node.go.    *)
(***************************************************************************)
\* uint16 arithmetic
U16(x) == x % 65536

\* shouldMerge of package types returns [dir, sibling]
typesShouldMerge(s, node, idx, updated) ==
    LET fits(sib) == U16(bType(sib) + bType(updated) + 65536 - Header) <= BTreePageSize
        none == [dir |-> 0, sibling |-> NoNode]
        tryRight == IF idx + 1 < nKeys(node) /\ fits(GetN(s, getPtr(node, idx + 1)))
                    THEN [dir |-> 1, sibling |-> GetN(s, getPtr(node, idx + 1))]
                    ELSE none
    IN IF bType(updated) > BTreePageSize \div 4 THEN none
       ELSE IF idx > 0 /\ fits(GetN(s, getPtr(node, idx - 1)))
       THEN [dir |-> -1, sibling |-> GetN(s, getPtr(node, idx - 1))]
       ELSE tryRight

\* nodeMerge into a buffer of cap bytes returns [err, node]: the second
\* nodeAppendRange slices the buffer at the position of its first entry, and
\* copy stops at the end of the buffer
nodeMergeInto(left, right, cap) ==
    IF nKeys(right) > 0
       /\ NextPos(left.e, nKeys(left) + nKeys(right)) > cap
    THEN [err |-> "nodeAppendRange: slice bounds out of range", node |-> NoNode]
    ELSE [err |-> "", node |-> nodeMerge(left, right)]

\* the entries of the leaves under one internal node, cut into leaves
ProtoLeaves(g, a, b) ==
    LET e == LeafWith(g, TRUE).e
        cut == <<SubSeq(e, 1, a), SubSeq(e, a + 1, b), SubSeq(e, b + 1, Len(e))>>
    IN [i \in 1..(IF b < Len(e) THEN 3 ELSE 2) |-> MkNode(BNodeLeaf, cut[i])]
ProtoInputs ==
    {[leaves |-> ProtoLeaves(c[1], c[2], c[3]), key |-> c[4]] :
        c \in {d \in [MergeKeys -> 0..NumVals] \X (1..NumMergeKeys) \X (2..(NumMergeKeys + 1))
                     \X MergeKeys :
                  /\ d[2] < d[3]
                  /\ d[3] <= nKeys(LeafWith(d[1], TRUE))
                  /\ d[1][d[4]] # 0
                  /\ \A i \in DOMAIN ProtoLeaves(d[1], d[2], d[3]) :
                        nBytes(ProtoLeaves(d[1], d[2], d[3])[i]) <= BTreePageSize}}

ProtoInit == /\ tree = NewC
             /\ ref = <<>>
             /\ lh = NewL
             /\ kv = NewKV(<<>>, <<>>)
             /\ obs \in {[op |-> "input", leaves |-> x.leaves, key |-> x.key, idx |-> 0,
                          updated |-> NoNode, dir |-> 0, sibling |-> NoNode, merged |-> NoNode,
                          err |-> ""] : x \in ProtoInputs}
             /\ last = "init"

\* the store and the internal node over the leaves L
ProtoStore(L) == [NewC EXCEPT !.pages = L]
ProtoNode(L) == MkNode(BNodeNode, [i \in 1..Len(L) |-> Entry(getKey(L[i], 0), 0, i)])

\* nodeDelete of package types on the internal node, up to nodeMerge
PNodeDelete ==
    LET node == ProtoNode(obs.leaves)
        idx == nodeLookupLE(node, obs.key)
        kid == obs.leaves[idx + 1]
        updated == leafDelete(kid, nodeLookupLE(kid, obs.key))
        merged(m) == IF m.dir < 0 THEN nodeMergeInto(m.sibling, updated, BTreePageSize)
                     ELSE IF m.dir > 0 THEN nodeMergeInto(updated, m.sibling, BTreePageSize)
                     ELSE [err |-> "", node |-> NoNode]
        done(m) == obs' = [obs EXCEPT !.op = "nodeDelete", !.idx = idx, !.updated = updated,
                                      !.dir = m.dir, !.sibling = m.sibling,
                                      !.merged = merged(m).node, !.err = merged(m).err]
    IN /\ last = "init"
       /\ done(typesShouldMerge(ProtoStore(obs.leaves), node, idx, updated))
       /\ last' = "nodeDelete"
       /\ UNCHANGED <<tree, ref, lh, kv>>

ProtoNext == PNodeDelete

SpecProto == ProtoInit /\ [][ProtoNext]_vars

(***************************************************************************)
(* Properties of the B+tree under harness C.                               *)
(***************************************************************************)
\* C.dump: the key-value pairs of the leaves, left to right
RECURSIVE Dump(_, _)
RECURSIVE DumpKids(_, _, _)
Dump(pages, ptr) ==
    IF ptr \notin DOMAIN pages THEN <<>>
    ELSE IF bType(pages[ptr]) = BNodeLeaf
    THEN [i \in 1..nKeys(pages[ptr]) |-> <<pages[ptr].e[i].k, pages[ptr].e[i].v>>]
    ELSE DumpKids(pages, pages[ptr], 0)
DumpKids(pages, node, i) ==
    IF i >= nKeys(node) THEN <<>>
    ELSE Dump(pages, getPtr(node, i)) \o DumpKids(pages, node, i + 1)

\* the reference map as a list of pairs in ascending key order
RECURSIVE RefPairs(_, _)
RefPairs(r, k) ==
    IF k > NumKeys THEN <<>>
    ELSE (IF k \notin DOMAIN r THEN <<>> ELSE <<(<<k, r[k]>>)>>) \o RefPairs(r, k + 1)

PresentKeys == DOMAIN ref
RootIsInternal == tree.root \in DOMAIN tree.pages /\ bType(tree.pages[tree.root]) = BNodeNode

\* C4: while the harness runs, Get(key) returns exactly what the reference map
\* holds for every key (found with that value, or not found), and the in-order
\* walk of the leaves is the dummy empty key followed by the reference map's
\* keys in ascending order with their values.
C4_GetMatchesReference ==
    tree.err = "" =>
        /\ \A k \in Keys :
              LET agrees(g) == /\ g.s.err = ""
                               /\ g.ok <=> k \in DOMAIN ref
                               /\ g.ok => g.val = ref[k]
              IN agrees(BTreeGet(tree, k))
        /\ tree.root # 0 => Dump(tree.pages, tree.root) = <<(<<0, 0>>)>> \o RefPairs(ref, 1)

\* a tree of two levels holding four keys, reached by a Delete that removed a key
C4_Witness ==
    /\ tree.err = "" /\ last = "del"
    /\ RootIsInternal
    /\ Cardinality(PresentKeys) >= 4
    /\ \E k \in Keys : k \notin DOMAIN ref

\* C9: in every stored internal node the key at index i equals the first key of
\* the child at index i, and the keys of every leaf are strictly increasing.
C9_KeysOrdered ==
    tree.err = "" =>
        \A p \in DOMAIN tree.pages :
            LET node == tree.pages[p] IN
            IF bType(node) = BNodeNode
            THEN \A i \in 0..(nKeys(node) - 1) :
                    /\ getPtr(node, i) \in DOMAIN tree.pages
                    /\ nKeys(tree.pages[getPtr(node, i)]) >= 1
                    /\ getKey(node, i) = getKey(tree.pages[getPtr(node, i)], 0)
            ELSE \A i \in 1..(nKeys(node) - 1) : getKey(node, i - 1) < getKey(node, i)

\* an internal root over at least three children, one of them a leaf of two keys or more
C9_Witness ==
    /\ tree.err = ""
    /\ RootIsInternal
    /\ nKeys(tree.pages[tree.root]) >= 3
    /\ \E p \in DOMAIN tree.pages :
          bType(tree.pages[p]) = BNodeLeaf /\ nKeys(tree.pages[p]) >= 3

C11_SecondUpdateIsNoop ==
    (last = "update" /\ obs.again /\ tree.err = "") =>
        /\ ~obs.ret /\ ~obs.upd /\ ~obs.add
        /\ obs.same
        /\ TreeMap(tree) = obs.pre

\* the second of two equal Updates on a tree of two levels that holds the key
C11_Witness ==
    /\ last = "update" /\ obs.again /\ tree.err = ""
    /\ RootIsInternal
    /\ obs.pre[obs.key] = obs.val
    /\ ~obs.ret

\* what the three modes promise about the Update that produced the state
ModesRespected ==
    LET had == obs.pre[obs.key] # 0
        now == TreeMap(tree)[obs.key]
    IN /\ (obs.mode = ModeInsertOnly /\ had) =>
              now = obs.pre[obs.key] /\ ~obs.upd /\ ~obs.add
       /\ (obs.mode = ModeUpdateOnly /\ ~had) =>
              now = 0 /\ ~obs.upd /\ ~obs.add
       /\ (obs.mode = ModeUpsert /\ ~had) => obs.upd /\ obs.add
       /\ (obs.mode = ModeUpsert /\ had /\ obs.val # obs.pre[obs.key]) =>
              obs.upd /\ ~obs.add

\* C12: in every tree state, a tree without a root included: INSERT_ONLY never
\* changes the value of a present key and UPDATE_ONLY never adds an absent
\* key, and in both no-op cases Updated and Added stay false; UPSERT of an
\* absent key sets Updated and Added; UPSERT of a present key with a different
\* value sets Updated and leaves Added false.
C12_ModesRespected ==
    (last = "update" /\ tree.err = "") => ModesRespected

\* the same statement for trees that already have a root
ModesRespectedWithRoot ==
    (last = "update" /\ tree.err = "" /\ ~obs.noRoot) => ModesRespected

\* Delete returns true exactly when the key was present; a false Delete leaves
\* the root and the pages alone; a true Delete removes the key and keeps the
\* value of every other key
DeleteResult ==
    (last = "delete" /\ tree.err = "") =>
        /\ obs.ret <=> obs.pre[obs.key] # 0
        /\ ~obs.ret => obs.same /\ TreeMap(tree) = obs.pre
        /\ obs.ret => TreeMap(tree) = [obs.pre EXCEPT ![obs.key] = 0]
NoPanic == tree.err = ""

StoredKeys == IF tree.root = 0 THEN {}
              ELSE {Dump(tree.pages, tree.root)[i][1] :
                       i \in 1..Len(Dump(tree.pages, tree.root))} \ {0}
\* the value stored under a key
StoredVal(k) ==
    (CHOOSE x \in SeqSet(Dump(tree.pages, tree.root)) : x[1] = k)[2]
MaxOf(S) == CHOOSE x \in S : \A y \in S : y <= x
MinOf(S) == CHOOSE x \in S : \A y \in S : x <= y
\* the iterator stands on stored key k
IsOn(it, k) == it.err = "" /\ Valid(it) /\ Deref(it).key = k
IsPastEnd(it) ==
    /\ it.err = "" /\ ~Valid(it) /\ Len(it.path) > 0
    /\ it.pos[Len(it.path)] = nKeys(it.path[Len(it.path)])
IsOnDummy(it) == it.err = "" /\ ~Valid(it) /\ iterIsFirst(it) /\ ~iterIsEnd(it)
Height == Len(obs.it.path)

\* C16: for a tree of any height, Next on an iterator at the last key leaves
\* it past the end (leaf position == nKeys, Valid() false) without panicking,
\* Prev on an iterator at the first real key leaves it on the dummy position
\* (Valid() false) without panicking, and a further Next at the end or Prev at
\* the dummy changes nothing.
C16_EndsOfTheWalk ==
    /\ (last = "next" /\ StoredKeys # {} /\ IsOn(obs.pre, MaxOf(StoredKeys)))
          => IsPastEnd(obs.it)
    /\ (last = "prev" /\ StoredKeys # {} /\ IsOn(obs.pre, MinOf(StoredKeys)))
          => IsOnDummy(obs.it)
    /\ (last = "next" /\ iterIsEnd(obs.pre)) => obs.it = obs.pre
    /\ (last = "prev" /\ iterIsFirst(obs.pre)) => obs.it = obs.pre

\* the same statement for trees of at most two levels
EndsOfTheWalkUpToTwoLevels == Height <= 2 => C16_EndsOfTheWalk

\* C18: for every tree, every non-empty key and every cmp in {LT, LE, GE, GT},
\* Seek(key, cmp) completes without failing its assertions and returns an
\* iterator that is either invalid (no stored key satisfies the relation) or
\* positioned on the stored key nearest to the argument among those
\* satisfying `stored cmp key`.
C18_SeekNearest ==
    (last = "seek" /\ obs.asserted) =>
        LET sat == {k \in StoredKeys : cmpOK(k, obs.cmp, obs.key)}
        IN /\ obs.it.err = ""
           /\ sat = {} => ~Valid(obs.it)
           /\ sat # {} => IsOn(obs.it, IF obs.cmp > 0 THEN MinOf(sat) ELSE MaxOf(sat))

SeekNearestUpToTwoLevels == Height <= 2 => C18_SeekNearest

\* C19: for an iterator positioned on any stored key, Prev moves it to the
\* immediately preceding stored key (or to the invalid dummy position if it
\* was on the smallest key), and a following Next returns it to the original
\* key and value.
C19_PrevThenNext ==
    /\ (last = "prev" /\ Valid(obs.pre)) =>
          LET below == {k \in StoredKeys : k < Deref(obs.pre).key}
          IN IF below = {} THEN IsOnDummy(obs.it) ELSE IsOn(obs.it, MaxOf(below))
    /\ (last = "next" /\ Valid(obs.orig)) =>
          /\ obs.it.err = "" /\ Valid(obs.it)
          /\ Deref(obs.it).key = Deref(obs.orig).key
          /\ Deref(obs.it).val = Deref(obs.orig).val
          /\ Deref(obs.it).val = StoredVal(Deref(obs.orig).key)

\* Prev stepped from the first key of a leaf to the last key of the leaf to its
\* left in a tree of three levels, and Next came back
C19_Witness ==
    /\ last = "next" /\ Valid(obs.orig) /\ Valid(obs.pre)
    /\ Height = 3
    /\ obs.orig.pos[Height] = 0
    /\ obs.pre.path[Height] # obs.orig.path[Height]
    /\ obs.it = obs.orig

(***************************************************************************)
(* Properties of scans.                                                    *)
(***************************************************************************)
\* the stored pairs whose key is in S, ascending
RECURSIVE PairsOf(_, _)
PairsOf(S, k) ==
    IF k > NumKeys THEN <<>>
    ELSE (IF k \in S THEN <<(<<k, StoredVal(k)>>)>> ELSE <<>>) \o PairsOf(S, k + 1)
Reverse(q) == [i \in 1..Len(q) |-> q[Len(q) + 1 - i]]
IsPrefix(q, r) == Len(q) <= Len(r) /\ \A i \in 1..Len(q) : q[i] = r[i]
\* the rows a scan has to produce, in the order of its direction
Expected(sc) ==
    LET inRange == {k \in StoredKeys : cmpOK(k, sc.Cmp1, sc.Key1) /\ cmpOK(k, sc.Cmp2, sc.Key2)}
    IN IF sc.Cmp1 > 0 THEN PairsOf(inRange, 1) ELSE Reverse(PairsOf(inRange, 1))
OppositeDirections(sc) == (sc.Cmp1 > 0 /\ sc.Cmp2 < 0) \/ (sc.Cmp2 > 0 /\ sc.Cmp1 < 0)
\* a scan from the smallest stored key up to the largest, or from the largest down
FullWalk ==
    /\ obs.op = "scan" /\ StoredKeys # {}
    /\ \/ /\ obs.sc.Cmp1 = CmpGe /\ obs.sc.Key1 = MinOf(StoredKeys)
          /\ obs.sc.Cmp2 = CmpLe /\ obs.sc.Key2 = MaxOf(StoredKeys)
       \/ /\ obs.sc.Cmp1 = CmpLe /\ obs.sc.Key1 = MaxOf(StoredKeys)
          /\ obs.sc.Cmp2 = CmpGe /\ obs.sc.Key2 = MinOf(StoredKeys)
WalkEnded ==
    /\ obs.op = "scan" /\ obs.done /\ obs.sc.err = ""
    /\ obs.rows = Expected(obs.sc)
    /\ obs.sc.Cmp1 < 0 => IsOnDummy(obs.sc.iter)
    /\ obs.sc.Cmp1 > 0 => IsPastEnd(obs.sc.iter)
ScanHeight == IF tree.root = 0 THEN 0 ELSE Len(SeekLE(tree, 1).path)

\* C17: starting from an iterator on the smallest stored key, repeated Next
\* visits every stored key exactly once in ascending order and then becomes
\* invalid after finitely many steps, for trees of every height; repeated Prev
\* from the largest key visits every key in descending order and ends on the
\* dummy.
C17_WalkVisitsAllAndEnds == FullWalk ~> WalkEnded

\* the same statement for trees of at most two levels
WalkEndsUpToTwoLevels == (FullWalk /\ ScanHeight <= 2) ~> WalkEnded
\* the descending half at every height
WalkDownEnds == (FullWalk /\ obs.sc.Cmp1 < 0) ~> WalkEnded

\* C20: for a scan with endpoints (Cmp1, Key1) and (Cmp2, Key2) of opposite
\* direction, the rows produced by the Valid/Deref/Next loop are exactly the
\* rows whose key satisfies both comparisons, ascending when Cmp1 is GT/GE and
\* descending when Cmp1 is LT/LE, a strict comparison excluding the endpoint;
\* a pair of comparisons with the same direction makes Scan return an error.
C20_ScanRange ==
    obs.op = "scan" =>
        /\ ~OppositeDirections(obs.sc) <=> obs.sc.err = "bad range"
        /\ OppositeDirections(obs.sc) =>
              /\ obs.sc.err = ""
              /\ IsPrefix(obs.rows, Expected(obs.sc))
              /\ obs.done => obs.rows = Expected(obs.sc)

ScanRangeUpToTwoLevels == ScanHeight <= 2 => C20_ScanRange

\* the keys of the model are ordered as the encoded keys of their rows, and
\* an encoded key starts with the 4 bytes of the prefix of its table
RowsOrderedAsEncoded ==
    \A j \in RowKeys, k \in RowKeys :
        /\ j < k <=> BytesLess(RowKey(j), RowKey(k))
        /\ SubSeq(RowKey(k), 1, 4) = PutUint32BE(RowPrefix(k))

\* C39: a scan of one table yields no row of another table (no row whose key
\* carries another prefix, the rows of @meta and @table included, nor the
\* dummy entry), in either direction and whatever rows the range names.
C39_OwnRowsOnly ==
    obs.op = "scan" =>
        \A i \in 1..Len(obs.rows) : RowPrefix(obs.rows[i][1]) = RowPrefix(obs.sc.Key1)

\* in trees of one and two levels, and downwards at every height
OwnRowsUpToTwoLevels == (ScanHeight <= 2 \/ (obs.op = "scan" /\ obs.sc.Cmp1 < 0)) => C39_OwnRowsOnly


(***************************************************************************)
(* Properties of the encoding.                                             *)
(***************************************************************************)
\* a < b for int64 values: the top byte is signed, the other bytes are not
I64Less(a, b) ==
    LET signed(x) == IF x >= 128 THEN x - 256 ELSE x
    IN IF a[1] # b[1] THEN signed(a[1]) < signed(b[1])
       ELSE BytesLess(Tail(a), Tail(b))
ValueLess(a, b) == IF a.Type = TypeInt64 THEN I64Less(a.I64, b.I64)
                   ELSE BytesLess(a.Str, b.Str)
\* rows compared column by column
RowLess(a, b) ==
    \E i \in 1..Len(a) : /\ \A j \in 1..(i - 1) : a[j] = b[j]
                         /\ ValueLess(a[i], b[i])

\* C21: decodeValues(encodeValues(v)) == v for every list of typed values, for
\* int64 including math.MinInt64, 0 and math.MaxInt64 and for byte strings
\* including the empty string and strings with 0x00 and 0x01 bytes
\* (unescapeString(escapeString(s)) == s).
C21_DecodeInvertsEncode ==
    /\ last = "encode" => obs.da.err = "" /\ obs.da.vals = obs.a
    /\ last = "escape" => obs.s2.err = "" /\ obs.s2.out = obs.s

\* a row of math.MinInt64 and a string holding 0x00 and 0x01 came back
C21_Witness ==
    /\ last = "encode" /\ obs.da.err = ""
    /\ obs.types = <<TypeInt64, TypeBytes>>
    /\ obs.a[1].I64 = <<128, 0, 0, 0, 0, 0, 0, 0>>
    /\ obs.a[2].Str = <<0, 1>>
    /\ obs.da.vals = obs.a

\* C22: for any two values of the same type with a < b (int64 numerically over
\* the full 64-bit range, byte strings lexicographically, strings with 0x00
\* and 0x01 bytes and proper prefixes included), encodeValues(a) <
\* encodeValues(b) bytewise; the same holds for tuples of columns compared
\* column by column.
C22_EncodingKeepsOrder ==
    (last = "encode" /\ RowLess(obs.a, obs.b)) => BytesLess(obs.ea, obs.eb)

\* two rows that differ in the first string column, one a proper prefix of the
\* other, followed by int64 columns in the opposite order
C22_Witness ==
    /\ last = "encode"
    /\ obs.types = <<TypeBytes, TypeInt64>>
    /\ obs.a[1].Str = <<1>> /\ obs.b[1].Str = <<1, 0>>
    /\ obs.a[2].I64 = <<127, 255, 255, 255, 255, 255, 255, 255>>
    /\ obs.b[2].I64 = <<128, 0, 0, 0, 0, 0, 0, 0>>
    /\ BytesLess(obs.ea, obs.eb)

(***************************************************************************)
(* Properties of the catalog.                                              *)
(***************************************************************************)
\* the row of a catalog table with the given key: [db, ok, vals]
MetaRow == dbGet(kv, TdefMeta, <<ValBytes(NextPrefixKey)>>)
TableRow(name) == dbGet(kv, TdefTable, <<ValBytes(name)>>)

\* C23: after n successful TableNew calls on a fresh database the tables
\* received the prefixes 100, 101, ..., 100+n-1 in creation order, the @meta
\* row next_prefix holds 100+n as a little-endian u32, and each @table row
\* stores the definition with the prefix assigned to that table.
C23_PrefixesInOrder ==
    kv.err = "" =>
        /\ \A i \in 1..Len(ref) :
              /\ ref[i].Prefix = TablePrefixMin + i - 1
              /\ TableRow(ref[i].Name).ok
              /\ TableRow(ref[i].Name).vals[2].Str = Marshal(ref[i])
        /\ Len(ref) >= 1 => /\ MetaRow.ok
                            /\ MetaRow.vals[2].Str = <<TablePrefixMin + Len(ref), 0, 0, 0>>

\* three tables were created, the last by the call that just returned nil
C23_Witness ==
    /\ last = "TableNew" /\ kv.err = "" /\ obs.err = ""
    /\ Len(ref) = MaxTables
    /\ ref[MaxTables].Prefix = TablePrefixMin + MaxTables - 1
    /\ MetaRow.vals[2].Str = <<TablePrefixMin + MaxTables, 0, 0, 0>>

\* C40: the tables created have different prefixes and are stored with them;
\* a call that assigns a prefix assigns one that no earlier call assigned,
\* also after calls that failed between the update of next_prefix and the
\* update of @table; the stored next_prefix never decreases and is above
\* every prefix assigned.
C40_PrefixesNeverShared ==
    kv.err = "" =>
        /\ \A i \in 1..Len(ref), j \in 1..Len(ref) :
              i # j => ref[i].Prefix # ref[j].Prefix
        /\ \A i \in 1..Len(ref) :
              /\ ref[i].Prefix \in obs.given
              /\ TableRow(ref[i].Name).ok
              /\ TableRow(ref[i].Name).vals[2].Str = Marshal(ref[i])
        /\ obs.handed => obs.prefix \notin obs.before
        /\ obs.prev <= StoredNext(kv)
        /\ \A p \in obs.given : p < StoredNext(kv)

\* a table was created after a call that failed in its second dbUpdate: the
\* prefix of the failed call is skipped
C40_Witness ==
    /\ last = "TableNew" /\ kv.err = "" /\ obs.err = ""
    /\ Len(ref) = 2
    /\ ref[2].Prefix = ref[1].Prefix + 2
    /\ Cardinality(obs.given) = 3

(***************************************************************************)
(* Properties of Open.                                                     *)
(***************************************************************************)
\* Open returned an error: no handle and no abort
OpenRefused == obs.ret \notin {"ok", "panic"}
BadSignature == obs.meta.sig # DbSig
BadFields ==
    \/ ~(0 < obs.meta.root /\ obs.meta.root < obs.meta.flushed)
    \/ ~(0 < obs.meta.headPage /\ obs.meta.headPage < obs.meta.flushed)
    \/ ~(0 < obs.meta.tailPage /\ obs.meta.tailPage < obs.meta.flushed)
    \/ obs.meta.flushed = 0
    \/ obs.meta.flushed > obs.size \div BTreePageSize

\* C24: Open of a non-empty file returns an error (not a usable handle and not
\* an abort) whenever the meta page has the wrong signature, or root,
\* head_page or tail_page lies outside (0, flushed), or flushed is 0 or
\* greater than file_size / 4096.
C24_BadMetaRefused ==
    (last = "open" /\ (BadSignature \/ BadFields)) => OpenRefused

\* the same for meta pages with the right signature
BadFieldsRefused ==
    (last = "open" /\ ~BadSignature /\ BadFields) => OpenRefused

\* C25: Open rejects every non-empty file whose size is not a multiple of
\* 4096, and does not reject on size grounds any file whose size is a
\* multiple of 4096 (1, 2 or 3 pages for example).
C25_SizeCheck ==
    last = "open" =>
        /\ obs.size % BTreePageSize # 0 => obs.ret # "ok"
        /\ obs.size % BTreePageSize = 0 =>
               obs.ret # "file size must be a multiple of the page size"

\* the size check as the code makes it: bit 12 of the size decides
SizeCheckByBit ==
    last = "open" =>
        ((obs.size \div BTreePageSize) % 2 = 1
             <=> obs.ret = "file size must be a multiple of the page size")

(***************************************************************************)
(* Properties of the empty key.                                            *)
(***************************************************************************)
\* Update and Delete with the empty key end in their first assertion, with
\* the root and the pages as they were
EmptyKeyWritesRefused ==
    /\ (last = "update" /\ obs.key = 0) =>
           obs.err = "Update: assert len(Key) != 0" /\ obs.same
    /\ (last = "delete" /\ obs.key = 0) =>
           obs.err = "Delete: assert len(key) != 0" /\ obs.same

\* C26: the dummy entry can never be observed or changed through the public
\* operations: Update and Delete called with an empty key fail their
\* assertion before any page is read, freed or allocated, and Get of the
\* empty key reports not found in every tree state.
C26_DummyNeverObserved ==
    /\ EmptyKeyWritesRefused
    /\ (last = "get" /\ obs.key = 0) => ~obs.ok

\* Get of the empty key finds the dummy entry exactly when the tree has a root
GetEmptyFindsDummy ==
    (last = "get" /\ obs.key = 0) => (obs.ok <=> ~obs.noRoot)

FaultOfLog(log) ==
    IF log[Len(log)].ok THEN [at |-> "none", w |-> {}]
    ELSE IF log[Len(log)].step = "pages" THEN [at |-> "page", w |-> log[Len(log)].written]
    ELSE [at |-> log[Len(log)].step, w |-> {}]

\* the calls of a finished commit leave what updateOrRevert returns
StepsAgreeWithUpdateOrRevert ==
    (obs.pc = "idle" /\ obs.ret \in {"ok", "err"}) =>
        /\ kv = updateOrRevert(obs.mutated, obs.meta, FaultOfLog(obs.log)).s
        /\ obs.ret = updateOrRevert(obs.mutated, obs.meta, FaultOfLog(obs.log)).ret

IsOk(log, i, step) == i >= 1 /\ log[i].step = step /\ log[i].ok

\* C28: in a commit the meta page is written only after every staged page
\* was written and the first fsync returned without error, which makes the
\* staged pages durable; the second fsync follows the write of the meta
\* page; SetMaxSeq follows a second fsync that succeeded; a call that fails
\* is the last call of the commit.
C28_CommitOrder ==
    \A i \in 1..Len(obs.log) :
        /\ obs.log[i].step = "meta" =>
               /\ IsOk(obs.log, i - 2, "pages")
               /\ obs.log[i - 2].written = DOMAIN obs.staged
               /\ IsOk(obs.log, i - 1, "sync1")
               /\ obs.log[i].durable
        /\ obs.log[i].step = "sync2" => IsOk(obs.log, i - 1, "meta")
        /\ obs.log[i].step = "maxseq" => IsOk(obs.log, i - 1, "sync2")
        /\ ~obs.log[i].ok => i = Len(obs.log) /\ obs.pc = "idle" /\ obs.ret = "err"

\* a commit of staged pages ran to its end
C28_Witness ==
    /\ obs.pc = "idle" /\ obs.ret = "ok"
    /\ DOMAIN obs.staged # {}
    /\ IsOk(obs.log, Len(obs.log), "maxseq")

\* C29: a commit that starts with failed set first rewrites the meta page
\* with the meta saved before the mutation and fsyncs it; no page is written
\* before both succeeded; failed is cleared only by that fsync succeeding,
\* and it is set after every attempt that returned an error.
C29_RewriteFirst ==
    /\ (obs.pc = "idle" /\ obs.ret = "err") => kv.failed
    /\ (obs.wasFailed /\ obs.pc \in {"rewrite", "resync"}) => kv.failed
    /\ (obs.wasFailed /\ obs.log # <<>>) =>
           /\ obs.log[1].step = "rewrite"
           /\ obs.log[1].ok => obs.log[1].page0 = obs.meta
           /\ \A i \in 1..Len(obs.log) :
                  /\ obs.log[i].step = "pages" =>
                         i = 3 /\ IsOk(obs.log, 1, "rewrite") /\ IsOk(obs.log, 2, "resync")
                  /\ obs.log[i].written # {} => i >= 3
                  /\ ~obs.log[i].failed => i >= 2 /\ IsOk(obs.log, 2, "resync")

\* the second of two failing attempts in a row: it rewrote the meta page,
\* cleared failed and failed in a later call
C29_Witness ==
    /\ obs.pc = "idle" /\ obs.ret = "err"
    /\ obs.wasFailed /\ obs.streak >= 2
    /\ Len(obs.log) >= 3
    /\ kv.failed

(***************************************************************************)
(* Properties of pageAppend.                                               *)
(***************************************************************************)
\* the page a pageAppend on the store s would take is not staged
Unstaged(s) == (s.flushed + s.nappend) \notin DOMAIN s.updates

\* C30: pageAppend of a node whose target page is not staged returns
\* ptr = flushed + nappend of before the call, adds one to nappend and stores
\* the node at updates[ptr], so that pageRead(ptr) returns the node; the
\* first Set on a new database puts the root at page 2.
C30_AppendStages ==
    /\ (obs.op = "pageAppend" /\ Unstaged(obs.pre)) =>
           /\ kv.err = ""
           /\ obs.ptr = obs.pre.flushed + obs.pre.nappend
           /\ kv.nappend = obs.pre.nappend + 1
           /\ obs.ptr \in DOMAIN kv.updates
           /\ kv.updates[obs.ptr] = obs.node
           /\ pageRead(kv, obs.ptr).page = obs.node
    /\ (obs.op = "set" /\ obs.n = 1 /\ DOMAIN obs.pre.disk = {}) =>
           kv.err = "" /\ kv.root = 2

\* every pageAppend for a page that is not staged ends the process in its
\* assertion, after nappend was incremented and before the node is stored
AppendStopsInAssert ==
    (obs.op = "pageAppend" /\ Unstaged(obs.pre)) =>
        /\ kv.err = "pageAppend: assert updates[ptr] != nil"
        /\ kv.nappend = obs.pre.nappend + 1
        /\ kv.updates = obs.pre.updates

\* the first Set on a new database ends in the assertion of pageAppend
FirstSetStops ==
    (obs.op = "set" /\ obs.n = 1 /\ DOMAIN obs.pre.disk = {}) =>
        kv.err = "pageAppend: assert updates[ptr] != nil"

(***************************************************************************)
(* Properties of nodeSplit3 and nodeSplit2.                                *)
(***************************************************************************)
RECURSIVE ConcatEntries(_)
ConcatEntries(nodes) ==
    IF nodes = <<>> THEN <<>> ELSE Head(nodes).e \o ConcatEntries(Tail(nodes))

\* C31: for every node that treeInsert or nodeReplaceKidN produces,
\* nodeSplit3 fails no assertion and returns 1, 2 or 3 nodes of the type of
\* the input, each of at most one page and with at least one key, whose
\* entries in order are the entries of the input; an input of at most one
\* page is returned as it is.
C31_SplitKeepsEntries ==
    obs.op = "nodeSplit3" =>
        /\ obs.err = ""
        /\ Len(obs.nodes) \in 1..3
        /\ \A i \in 1..Len(obs.nodes) :
               /\ nBytes(obs.nodes[i]) <= BTreePageSize
               /\ nKeys(obs.nodes[i]) >= 1
               /\ bType(obs.nodes[i]) = bType(obs.in)
        /\ ConcatEntries(obs.nodes) = obs.in.e
        /\ nBytes(obs.in) <= BTreePageSize => obs.nodes = <<obs.in>>

\* a leaf whose left part was still too large was split in three
C31_Witness ==
    /\ obs.op = "nodeSplit3" /\ obs.err = ""
    /\ bType(obs.in) = BNodeLeaf /\ nBytes(obs.in) > BTreePageSize
    /\ Len(obs.nodes) = 3

\* the cut nodeSplit2 ended with is the one its assertions ask for
CutIsSound ==
    /\ obs.pc = "done" /\ obs.err = ""
    /\ 1 <= obs.nLeft /\ obs.nLeft < nKeys(obs.in)
    /\ nBytes(MkNode(bType(obs.in), Range(obs.in, obs.nLeft, nKeys(obs.in) - obs.nLeft)))
           <= BTreePageSize

\* C32: on every input of more than one page with at least two keys the two
\* loops of nodeSplit2 come to an end, with 1 <= nLeft < nKeys and a right
\* node of at most one page, and no assertion fails.
C32_LoopsEnd == <>CutIsSound

\* the loops move at most nKeys keys across, and never out of 0..nKeys
LoopsBounded ==
    /\ obs.moved <= nKeys(obs.in)
    /\ 0 <= obs.nLeft /\ obs.nLeft <= nKeys(obs.in)
    /\ obs.pc = "done" => CutIsSound

\* a call in which a loop moved keys across has ended
C32_Witness == CutIsSound /\ obs.moved >= 2

(***************************************************************************)
(* Properties of nodeDelete on the root of a tree of two levels.           *)
(***************************************************************************)
\* the leaves under the root of the store s, left to right
LeavesOf(s) ==
    IF s.root = 0 THEN <<>>
    ELSE IF bType(s.pages[s.root]) = BNodeLeaf THEN <<s.pages[s.root]>>
    ELSE [i \in 1..nKeys(s.pages[s.root]) |-> s.pages[getPtr(s.pages[s.root], i - 1)]]

\* a node without the entry of key
Without(node, key) == MkNode(bType(node), SelectSeq(node.e, LAMBDA x : x.k # key))

\* the leaves that the claim asks for after key was deleted from leaf idx
\* (counted from 1) of the leaves L
LeavesAsked(L, idx, key) ==
    LET updated == Without(L[idx], key)
        small == nBytes(updated) <= 1024
        fits(sib) == nBytes(sib) + nBytes(updated) - Header <= 4096
        glue(a, b) == MkNode(BNodeLeaf, a.e \o b.e)
    IN IF small /\ idx > 1 /\ fits(L[idx - 1])
       THEN SubSeq(L, 1, idx - 2) \o <<glue(L[idx - 1], updated)>> \o SubSeq(L, idx + 1, Len(L))
       ELSE IF small /\ idx < Len(L) /\ fits(L[idx + 1])
       THEN SubSeq(L, 1, idx - 1) \o <<glue(updated, L[idx + 1])>> \o SubSeq(L, idx + 2, Len(L))
       ELSE SubSeq(L, 1, idx - 1) \o <<updated>> \o SubSeq(L, idx + 1, Len(L))

\* the call was a Delete that found its key under an internal root and returned
DeletedUnderRoot ==
    /\ last = "del" /\ obs.ret /\ tree.err = ""
    /\ obs.pre.root # 0
    /\ bType(obs.pre.pages[obs.pre.root]) = BNodeNode

\* C33: nodeDelete merges the updated child with a sibling only if the child
\* is of at most 1024 bytes and the two together, less one header, of at most
\* 4096; the left sibling is taken when both qualify; the merged node holds
\* the entries of the left node, then those of the right node; the child and
\* the sibling that was merged away are freed once, so that every page that
\* is left is a page of the tree.
C33_MergeRule ==
    DeletedUnderRoot =>
        /\ LeavesOf(tree) =
               LeavesAsked(LeavesOf(obs.pre),
                           nodeLookupLE(obs.pre.pages[obs.pre.root], obs.key) + 1, obs.key)
        /\ Cardinality(DOMAIN tree.pages) =
               Len(LeavesOf(tree)) + (IF bType(tree.pages[tree.root]) = BNodeNode THEN 1 ELSE 0)

\* the child in the middle of three was merged into its left sibling although
\* the right sibling qualified too
C33_Witness ==
    /\ DeletedUnderRoot
    /\ Len(LeavesOf(obs.pre)) >= 3
    /\ LET L == LeavesOf(obs.pre)
           idx == nodeLookupLE(obs.pre.pages[obs.pre.root], obs.key) + 1
           updated == Without(L[idx], obs.key)
       IN /\ idx > 1 /\ idx < Len(L)
          /\ nBytes(updated) <= 1024
          /\ nKeys(updated) >= 1
          /\ nBytes(L[idx - 1]) + nBytes(updated) - Header <= 4096
          /\ nBytes(L[idx + 1]) + nBytes(updated) - Header <= 4096
          /\ Len(LeavesOf(tree)) = Len(L) - 1

(***************************************************************************)
(* Properties of BTree.Delete on the root.                                 *)
(***************************************************************************)
\* the number of levels of the tree under ptr
RECURSIVE Levels(_, _)
Levels(pages, ptr) ==
    IF ptr \notin DOMAIN pages THEN 0
    ELSE IF bType(pages[ptr]) = BNodeNode /\ nKeys(pages[ptr]) > 0
    THEN 1 + Levels(pages, getPtr(pages[ptr], 0))
    ELSE 1

\* the keys of a node
NodeKeys(node) == [i \in 1..nKeys(node) |-> node.e[i].k]

\* what treeDelete returned for the root of the tree the last call started
\* from: the store it left and the node
RootAfterDelete == treeDelete(obs.pre, GetN(obs.pre, obs.pre.root), obs.key)

\* the last call was a Delete that found its key and returned
Deleted == obs.op = "del" /\ obs.ret /\ tree.err = ""

\* a Delete that emptied the only leaf of an internal node below the root
MarkerMade ==
    /\ Deleted
    /\ \E p \in DOMAIN obs.pre.pages \ {obs.pre.root} :
          /\ bType(obs.pre.pages[p]) = BNodeNode
          /\ nKeys(obs.pre.pages[p]) = 1
          /\ NodeKeys(GetN(obs.pre, getPtr(obs.pre.pages[p], 0))) = <<obs.key>>

\* C35: when treeDelete leaves the root an internal node with one child that
\* child becomes the root and the tree loses one level; the root is never an
\* internal node without keys; once every key is deleted the tree is one
\* page, a leaf with the dummy entry only.
C35_RootShrinks ==
    /\ (Deleted /\ bType(RootAfterDelete.node) = BNodeNode /\ nKeys(RootAfterDelete.node) = 1) =>
          /\ Levels(tree.pages, tree.root) = Levels(obs.pre.pages, obs.pre.root) - 1
          /\ NodeKeys(tree.pages[tree.root])
                = NodeKeys(GetN(RootAfterDelete.s, getPtr(RootAfterDelete.node, 0)))
          /\ Cardinality(DOMAIN tree.pages) = Cardinality(DOMAIN RootAfterDelete.s.pages) - 1
    /\ (tree.err = "" /\ RootIsInternal) => nKeys(tree.pages[tree.root]) >= 1
    /\ (tree.err = "" /\ tree.root # 0 /\ DOMAIN ref = {}) =>
          /\ Cardinality(DOMAIN tree.pages) = 1
          /\ tree.pages[tree.root] = MkNode(BNodeLeaf, <<Entry(0, 0, 0)>>)

\* a Delete removed a level after the only leaf of an internal node was emptied
C35_Witness ==
    /\ MarkerMade
    /\ Levels(obs.pre.pages, obs.pre.root) = 3
    /\ Levels(tree.pages, tree.root) = 2

\* C36: the pages of harness C (handed out by tree.new and not released by
\* tree.del) are exactly the pages reachable from the root, each reached
\* once, and no call ends in the assertion of tree.del or of tree.get, which
\* fail on a page that is not allocated.
C36_PagesAreTheTree ==
    /\ tree.err \notin {"del: assert pages[ptr] != nil", "get: assert ok"}
    /\ tree.err = "" =>
          /\ SeqRange(Preorder(tree.pages, tree.root)) = DOMAIN tree.pages
          /\ Len(Preorder(tree.pages, tree.root)) = Cardinality(DOMAIN tree.pages)

\* a Delete returned on a tree of three levels and left one of three levels
C36_Witness ==
    /\ last = "del"
    /\ tree.err = ""
    /\ Levels(tree.pages, tree.root) = 3
    /\ Cardinality(DOMAIN tree.pages) >= 6

MergesWhateverTheSize ==
    obs.op = "nodeDelete" => obs.dir = IF obs.idx > 0 THEN -1 ELSE 1

(***************************************************************************)
(* Properties of the free list under harness L.                            *)
(***************************************************************************)
\* C7: PopHead returns 0 exactly when headSeq == maxSeq, and then leaves the
\* list unchanged; otherwise it returns the id stored at headSeq; and it never
\* returns an id pushed after the most recent SetMaxSeq.
C7_PopHead ==
    (last = "pop" /\ lh.err = "") =>
        /\ obs.ptr = 0 <=> obs.pre.headSeq = obs.pre.maxSeq
        /\ obs.ptr = 0 => obs.same
        /\ obs.ptr # 0 => obs.ptr = obs.slot
        /\ obs.ptr \notin obs.fresh

\* a pop that returned an id from a later list node while ids pushed since the
\* last SetMaxSeq wait in the list
C7_Witness ==
    /\ last = "pop" /\ lh.err = ""
    /\ obs.ptr # 0
    /\ obs.fresh # {}
    /\ obs.pre.headPage # 1
(***************************************************************************)
(* Properties of KV under harness D.                                       *)
(***************************************************************************)
\* flDump: [ok, list, nodes] without the head node; ok is FALSE when the walk
\* ends the process or does not end within the longest list the file can hold
RECURSIVE flWalk(_, _, _, _)
flWalk(s, ptr, seq, fuel) ==
    LET cons(item, rest) == [ok |-> rest.ok, list |-> <<item>> \o rest.list, nodes |-> rest.nodes]
        hop(next, rest) == [ok |-> rest.ok, list |-> rest.list, nodes |-> <<next>> \o rest.nodes]
        step(node) ==
            IF seq2idx(seq + 1) = 0
            THEN cons(node.p[seq2idx(seq)], hop(node.next, flWalk(s, node.next, seq + 1, fuel - 1)))
            ELSE cons(node.p[seq2idx(seq)], flWalk(s, ptr, seq + 1, fuel - 1))
        got(g) == IF g.s.err # "" THEN [ok |-> FALSE, list |-> <<>>, nodes |-> <<>>]
                  ELSE step(AsLNode(g.page))
    IN IF seq = s.fl.tailSeq THEN [ok |-> TRUE, list |-> <<>>, nodes |-> <<>>]
       ELSE IF fuel = 0 \/ ptr = 0 THEN [ok |-> FALSE, list |-> <<>>, nodes |-> <<>>]
       ELSE got(FlGet(s, ptr))
flDump(s) ==
    LET headed(d) == [ok |-> d.ok, list |-> d.list, nodes |-> <<s.fl.headPage>> \o d.nodes]
    IN headed(flWalk(s, s.fl.headPage, s.fl.headSeq, FreeListCap * (MaxTx + 3)))

NoDup(q) == \A i, j \in 1..Len(q) : i # j => q[i] # q[j]

\* C14: after any sequence of PushTail, PopHead and SetMaxSeq every id pushed
\* or allocated by the list is in exactly one place: in the list between
\* headSeq and tailSeq, in use as a list node page, or already returned by
\* PopHead (L.verify: the pages are the listed ids, the list nodes and the
\* removed ids without repetition, and they are page 1, the appended pages and
\* the added ids without repetition).
C14_EveryIdInOnePlace ==
    lh.err = "" =>
        LET appended == {p \in DOMAIN lh.pages : AppendBase <= p /\ p < PushBase}
            places(q) == NoDup(q) /\ SeqSet(q) = DOMAIN lh.pages
            dumped(d) == /\ d.ok
                         /\ places(d.list \o d.nodes \o lh.removed)
                         /\ \A p \in DOMAIN lh.pages :
                               p \in appended \/ p = 1 \/ p \in SeqSet(lh.added)
                         /\ NoDup(lh.added)
                         /\ Cardinality(DOMAIN lh.pages) =
                               1 + Cardinality(appended) + Len(lh.added)
                         /\ {1} \cup appended \cup SeqSet(lh.added) = DOMAIN lh.pages
        IN dumped(flDump(lh))

\* ids are listed, ids were popped, and the first list node itself was recycled
C14_Witness ==
    /\ lh.err = ""
    /\ lh.removed # <<>>
    /\ lh.fl.headSeq < lh.fl.tailSeq
    /\ lh.fl.headPage # lh.fl.tailPage
    /\ 1 \notin SeqSet(flDump(lh).nodes)
    /\ \E p \in DOMAIN lh.pages : AppendBase <= p /\ p < PushBase

\* C15: whenever headPage != 0, tailPage != 0 and headSeq == tailSeq, headPage
\* equals tailPage; the check() at the start of flPop never fails.
C15_CheckHolds ==
    /\ lh.err # "FreeList.check"
    /\ lh.err = "" =>
          /\ check(lh.fl)
          /\ (lh.fl.headPage # 0 /\ lh.fl.tailPage # 0 /\ lh.fl.headSeq = lh.fl.tailSeq)
                => lh.fl.headPage = lh.fl.tailPage

\* a pop that took the last id, with head and tail on a later node than page 1
C15_Witness ==
    /\ last = "pop" /\ lh.err = ""
    /\ obs.ptr # 0
    /\ lh.fl.headSeq = lh.fl.tailSeq
    /\ lh.fl.headPage # 1

\* the loop of the test has ended on an empty list of one node
Drained ==
    /\ obs.pc = "done"
    /\ lh.err = ""
    /\ lh.fl.headSeq = lh.fl.tailSeq
    /\ flDump(lh).ok
    /\ flDump(lh).list = <<>>
    /\ Len(flDump(lh).nodes) = 1

\* C37: after N pushes the loop of SetMaxSeq and pop ends (pop returns 0) and
\* leaves a list without ids, headSeq == tailSeq, made of one list node.
C37_DrainEnds == <>Drained

\* a list of several nodes was emptied
C37_Witness == Drained /\ obs.n > 2 * FreeListCap

\* no call of the two tests ends the process and no id is given out twice
DrainSteps ==
    lh.err = "" /\ NoDup(lh.removed) /\ Len(lh.removed) <= 2 * MaxDrain + 2

\* FreeList: headSeq <= maxSeq <= tailSeq
SeqOrder(fl) == fl.headSeq <= fl.maxSeq /\ fl.maxSeq <= fl.tailSeq

\* C38: headSeq <= maxSeq <= tailSeq after every operation of harness L and
\* after every Set, Del, Open and crash of the KV, committed or rolled back;
\* no push or pop of harness L lowers headSeq or tailSeq, and one that moves
\* the head or the tail to another list node raises its sequence number.
C38_SeqOrder ==
    /\ [](lh.err = "" => SeqOrder(lh.fl))
    /\ [](kv.err = "" => SeqOrder(kv.fl))
    /\ [][lh'.err = "" =>
             /\ lh'.fl.headSeq >= lh.fl.headSeq
             /\ lh'.fl.tailSeq >= lh.fl.tailSeq
             /\ (lh'.fl.headPage # lh.fl.headPage) => (lh'.fl.headSeq > lh.fl.headSeq)
             /\ (lh'.fl.tailPage # lh.fl.tailPage) => (lh'.fl.tailSeq > lh.fl.tailSeq)]_vars

\* a pop moved the head to the next list node
C38_Witness ==
    /\ last = "pop" /\ lh.err = ""
    /\ obs.pre.headPage # lh.fl.headPage
    /\ lh.fl.headSeq > obs.pre.headSeq
    /\ lh.fl.headSeq >= FreeListCap

\* a Set or Del of the KV was rolled back with ids on its list
RolledBackWithList ==
    /\ last \in {"set", "del"} /\ obs.ret = "err" /\ kv.failed
    /\ kv.fl.headSeq < kv.fl.tailSeq

\* D.verify, the page accounting: page 0 and the root are marked, every
\* other tree node, every list node and every listed page must be unmarked
\* when it is met, and in the end every page of [0, flushed) is marked
Verify(s) ==
    LET marked(q) == /\ NoDup(q)
                     /\ SeqSet(q) \cap {0, s.root} = {}
                     /\ SeqSet(q) \cup {0, s.root} = 0..(s.flushed - 1)
        dumped(t, d) == /\ t # <<>>
                        /\ d.ok
                        /\ marked(Tail(t) \o d.nodes \o d.list)
    IN dumped(TreePages(s, s.root, MaxTx + 2), flDump(s))

C6_DurableTreeUntouched ==
    (last \in {"set", "del"})
        => /\ obs.alloc \cap obs.reach = {}
           /\ obs.written \cap obs.reach = {}
           /\ obs.alloc \cap obs.freed = {}

\* a commit that took every page the list could give while the pages the
\* transaction freed wait behind the barrier
C6_Witness ==
    /\ last \in {"set", "del"} /\ obs.ret = "ok"
    /\ obs.alloc # {} /\ obs.freed # {} /\ obs.reach # {}
    /\ obs.snap.headSeq # obs.snap.tailSeq
    /\ kv.fl.headSeq = obs.snap.tailSeq

====
